---- MODULE Spec2Model ----
(***************************************************************************)
(* peopleops-dashboard: the role resolver (useRole), the Leaves,           *)
(* Attendance, Employees and Profile views and the row-level-security      *)
(* policies of the store they talk to.                                     *)
(*                                                                         *)
(* A session is one mounted page in one browser tab: it owns one instance  *)
(* of the useRole hook and the state of the page's component.  The store   *)
(* is the set of tables of the migrations, reached through the data API;   *)
(* every request is evaluated under the policies in force once all the     *)
(* migrations are applied, with auth.uid() the identity of the caller.     *)
(***************************************************************************)
EXTENDS Integers, Sequences, FiniteSets, TLC

\* ------------------------------------------------------------------ bounds
MaxInFlight == 2      \* role queries one resolver has in flight at once
MaxLeaves == 2        \* rows of public.leaves
MaxAttendance == 2    \* rows of public.attendance

\* --------------------------------------------------------------- universes
Users == {"a", "u"}                 \* identities, each with a profile
NoUser == "none"                    \* useAuth() has no user
Null == "null"                      \* SQL NULL / JS null
Sessions == {1, 2}
app_role == {"admin", "user"}
leave_type == {"sick", "vacation", "personal", "other"}
leave_status == {"pending", "approved", "rejected"}
\* new Date().toISOString() readings of the client clocks
Stamps == {"2025-01-13T09:00:00Z", "2025-01-14T09:00:00Z"}
ApiStamp == "2025-01-15T09:00:00Z"

VARIABLES
  user_roles,   \* public.user_roles: set of [user_id, role]
  leaves,       \* public.leaves: sequence of rows, a row's id is its index
  user,         \* user[s]: useAuth().user of session s (an identity or NoUser)
  mounted,      \* mounted[s]: the page of session s is mounted
  role,         \* role[s]: useRole state `role`
  loading,      \* loading[s]: useRole state `loading`
  roleQ,        \* roleQ[s]: the role queries of s in flight, oldest first
  console,      \* console[s]: the last console.error line of session s
  leavesList,   \* leavesList[s]: Leaves state `leaves` (the displayed rows)
  leavesLoading,\* leavesLoading[s]: Leaves state `loading`
  leavesDeps,   \* leavesDeps[s]: the [user, isAdmin] the fetch effect last ran for
  profiles,     \* public.profiles: identity -> [name, email, department, hire_date]
  admin_data,   \* public.admin_data: set of [user_id, position]
  attendance,   \* public.attendance: sequence of rows, a row's id is its index
  now,          \* the instant it is: an index into Instants
  toast,        \* toast[s]: the last notification session s showed
  employees,    \* employees[s]: Employees state `employees`
  employeesLoading,  \* employeesLoading[s]: Employees state `loading`
  employeesDeps,     \* employeesDeps[s]: the [isAdmin] the Employees effect last ran for
  profile,      \* profile[s]: Profile state `profile`
  profileLoading,    \* profileLoading[s]: Profile state `loading`
  profileDeps,  \* profileDeps[s]: the [user] the Profile effect last ran for
  employeeToDelete,  \* employeeToDelete[s]: Employees state `employeeToDelete`
  deleteDialogOpen,  \* deleteDialogOpen[s]: Employees state `deleteDialogOpen`
  response,     \* the answer to the last read request sent to the data API
  attendanceRecords, \* attendanceRecords[s]: Attendance state `attendanceRecords`
  attendanceLoading, \* attendanceLoading[s]: Attendance state `loading`
  attendanceDeps,    \* attendanceDeps[s]: the [roleLoading, isAdmin] of the last effect run
  selectedEmployee,  \* selectedEmployee[s]: Attendance state `selectedEmployee`
  notes              \* notes[s]: Attendance state `notes`

storeVars == <<user_roles, leaves>>
roleVars == <<user, mounted, role, loading, roleQ>>
viewVars == <<leavesList, leavesLoading, leavesDeps>>
\* The tables and page states of the Attendance, Employees and Profile views.
hrStore == <<profiles, admin_data, attendance, now>>
markVars == <<selectedEmployee, notes>>
attViewVars == <<attendanceRecords, attendanceLoading, attendanceDeps, markVars>>
dirViewVars == <<employeesLoading, employeesDeps, employeeToDelete, deleteDialogOpen>>
profileVars == <<profile, profileLoading, profileDeps>>
hrViews == <<toast, employees, dirViewVars, profileVars, attViewVars, response>>
hrVars == <<hrStore, hrViews>>
vars == <<user_roles, leaves, user, mounted, role, loading, roleQ, console,
          leavesList, leavesLoading, leavesDeps, hrVars>>

\* ------------------------------------------------------------------ store
\* has_role(_user_id, _role): EXISTS over user_roles.
has_role(uid, r) == \E row \in user_roles : row.user_id = uid /\ row.role = r

\* The rows of user_roles an identity holds.
RoleRowsOf(uid) == {row \in user_roles : row.user_id = uid}

\* SELECT role FROM user_roles WHERE user_id = uid, as caller uid: the policy
\* "Users can view own role or admins can view all" passes every own row.
SelectOwnRoles(uid) ==
  {row \in user_roles :
     row.user_id = uid /\ (uid = row.user_id \/ has_role(uid, "admin"))}

\* .maybeSingle(): no row is data null, one row is that row, more is an error.
MaybeSingle(rows) ==
  IF Cardinality(rows) = 0 THEN [error |-> FALSE, data |-> Null]
  ELSE IF Cardinality(rows) = 1
       THEN [error |-> FALSE, data |-> (CHOOSE row \in rows : TRUE).role]
       ELSE [error |-> TRUE, data |-> Null]

\* A request that never got an answer from the store.
NetworkError == [error |-> TRUE, data |-> Null]

\* ------------------------------------------------------- role resolver
\* isAdmin = !!role: any resolved role counts.
isAdminAnyRole(s) == role[s] # Null

\* const isAdmin = role === "admin"
isAdmin(s) == role[s] = "admin"

\* setRole(data?.role) without the || "user" default.
RoleFromResponseNoDefault(resp) ==
  IF resp.error THEN "user" ELSE resp.data

\* A catch block that logs but leaves the role unset.
RoleFromResponseNoCatch(resp) ==
  IF resp.error THEN Null
  ELSE IF resp.data = Null THEN "user" ELSE resp.data

\* A catch block that grants the admin role.
RoleFromResponseFailOpen(resp) ==
  IF resp.error THEN "admin"
  ELSE IF resp.data = Null THEN "user" ELSE resp.data

\* setRole(data?.role || "user") on success, setRole("user") in the catch.
RoleFromResponse(resp) ==
  IF resp.error THEN "user"
  ELSE IF resp.data = Null THEN "user" ELSE resp.data

RemoveAt(seq, i) == SubSeq(seq, 1, i - 1) \o SubSeq(seq, i + 1, Len(seq))

\* fetchRole() without the early return: no user falls back to "user".
FetchRoleStartNoGuard(s, uid, via) ==
  IF uid = NoUser
  THEN /\ role' = [role EXCEPT ![s] = "user"]
       /\ loading' = [loading EXCEPT ![s] = FALSE]
       /\ roleQ' = roleQ
  ELSE /\ Len(roleQ[s]) < MaxInFlight
       /\ roleQ' = [roleQ EXCEPT
            ![s] = Append(@, [uid |-> uid, via |-> via, st |-> "sent",
                              error |-> FALSE, data |-> Null])]
       /\ UNCHANGED <<role, loading>>

\* fetchRole() up to its await, for the user of the current render.
\* No user: setRole(null), setLoading(false), no query.  Otherwise the
\* query is sent and the function suspends.  via: the caller, the effect
\* body or the focus listener.
FetchRoleStart(s, uid, via) ==
  IF uid = NoUser
  THEN /\ role' = [role EXCEPT ![s] = Null]
       /\ loading' = [loading EXCEPT ![s] = FALSE]
       /\ roleQ' = roleQ
  ELSE /\ Len(roleQ[s]) < MaxInFlight
       /\ roleQ' = [roleQ EXCEPT
            ![s] = Append(@, [uid |-> uid, via |-> via, st |-> "sent",
                              error |-> FALSE, data |-> Null])]
       /\ UNCHANGED <<role, loading>>

\* The page mounts: useState initial values, then the effect runs fetchRole
\* and adds the focus listener.
Mount(s) ==
  /\ ~mounted[s]
  /\ mounted' = [mounted EXCEPT ![s] = TRUE]
  /\ FetchRoleStart(s, user[s], "effect")
  /\ UNCHANGED <<hrVars, storeVars, user, console, viewVars>>

\* The page unmounts: the focus listener is removed and the component state
\* is gone; answers to queries still in flight are dropped.
Unmount(s) ==
  /\ mounted[s]
  /\ mounted' = [mounted EXCEPT ![s] = FALSE]
  /\ role' = [role EXCEPT ![s] = Null]
  /\ loading' = [loading EXCEPT ![s] = TRUE]
  /\ roleQ' = [roleQ EXCEPT ![s] = <<>>]
  /\ leavesList' = [leavesList EXCEPT ![s] = <<>>]
  /\ leavesLoading' = [leavesLoading EXCEPT ![s] = TRUE]
  /\ leavesDeps' = [leavesDeps EXCEPT ![s] = <<>>]
  /\ UNCHANGED <<hrVars, storeVars, user, console>>

\* The auth provider reports another user (sign-in, sign-out): user?.id
\* changes, so the effect of a mounted page runs again and calls fetchRole.
AuthChange(s, uid) ==
  /\ uid # user[s]
  /\ user' = [user EXCEPT ![s] = uid]
  /\ IF mounted[s] THEN FetchRoleStart(s, uid, "effect")
                   ELSE UNCHANGED <<role, loading, roleQ>>
  /\ UNCHANGED <<hrVars, storeVars, mounted, console, viewVars>>

\* window "focus": handleFocus calls fetchRole.
Focus(s) ==
  /\ mounted[s]
  /\ FetchRoleStart(s, user[s], "focus")
  /\ UNCHANGED <<hrVars, storeVars, user, mounted, console, viewVars>>

\* The store answers the i-th role query of s in flight, or the request fails.
RoleServe(s, i, fail) ==
  /\ i \in 1..Len(roleQ[s])
  /\ roleQ[s][i].st = "sent"
  /\ LET q == roleQ[s][i]
         resp == IF fail THEN NetworkError
                 ELSE MaybeSingle(SelectOwnRoles(q.uid))
     IN roleQ' = [roleQ EXCEPT ![s][i] =
                    [uid |-> q.uid, via |-> q.via, st |-> "done",
                     error |-> resp.error, data |-> resp.data]]
  /\ UNCHANGED <<hrVars, storeVars, user, mounted, role, loading, console, viewVars>>

\* A fetchRole that calls setLoading(false) at the end of the try block
\* instead of in a finally.
RoleResumeNoFinally(s, i) ==
  /\ i \in 1..Len(roleQ[s])
  /\ roleQ[s][i].st = "done"
  /\ role' = [role EXCEPT ![s] = RoleFromResponse(roleQ[s][i])]
  /\ loading' = [loading EXCEPT ![s] = IF roleQ[s][i].error THEN @ ELSE FALSE]
  /\ console' = [console EXCEPT ![s] =
        IF roleQ[s][i].error THEN "Error fetching role:" ELSE @]
  /\ roleQ' = [roleQ EXCEPT ![s] = RemoveAt(@, i)]
  /\ UNCHANGED <<hrVars, storeVars, user, mounted, viewVars>>

\* fetchRole resumes after its await with the answer to the i-th query:
\* the try/catch/finally of useRole.tsx.
RoleResume(s, i) ==
  /\ i \in 1..Len(roleQ[s])
  /\ roleQ[s][i].st = "done"
  /\ role' = [role EXCEPT ![s] = RoleFromResponse(roleQ[s][i])]
  /\ loading' = [loading EXCEPT ![s] = FALSE]
  /\ console' = [console EXCEPT ![s] =
        IF roleQ[s][i].error THEN "Error fetching role:" ELSE @]
  /\ roleQ' = [roleQ EXCEPT ![s] = RemoveAt(@, i)]
  /\ UNCHANGED <<hrVars, storeVars, user, mounted, viewVars>>

\* ------------------------------------------- role management requests
\* A policy that lets every identity manage its own role rows.
ManageRolesAllowedOwn(c, row) == has_role(c, "admin") \/ c = row.user_id

\* Policy "Only admins can manage roles": FOR ALL, USING has_role(caller,
\* admin), which is also the WITH CHECK.
ManageRolesAllowed(c, row) == has_role(c, "admin")

\* No view writes user_roles; these are data API requests by caller c under
\* that policy and the table's UNIQUE(user_id, role).  A request the policy
\* or the constraint refuses changes nothing.
RoleInsert(c, uid, r) ==
  /\ user_roles' =
       IF /\ ManageRolesAllowed(c, [user_id |-> uid, role |-> r])
          /\ [user_id |-> uid, role |-> r] \notin user_roles
       THEN user_roles \cup {[user_id |-> uid, role |-> r]}
       ELSE user_roles
  /\ UNCHANGED <<hrVars, leaves, roleVars, console, viewVars>>

RoleUpdate(c, row, r) ==
  /\ row \in user_roles
  /\ user_roles' =
       IF /\ ManageRolesAllowed(c, row)
          /\ ManageRolesAllowed(c, [user_id |-> row.user_id, role |-> r])
          /\ [user_id |-> row.user_id, role |-> r] \notin user_roles
       THEN (user_roles \ {row}) \cup {[user_id |-> row.user_id, role |-> r]}
       ELSE user_roles
  /\ UNCHANGED <<hrVars, leaves, roleVars, console, viewVars>>

RoleDelete(c, row) ==
  /\ row \in user_roles
  /\ user_roles' = IF ManageRolesAllowed(c, row) THEN user_roles \ {row} ELSE user_roles
  /\ UNCHANGED <<hrVars, leaves, roleVars, console, viewVars>>

\* ----------------------------------------------------- public.leaves
\* What the Leaves form can hold at submit: the Select state leaveType (""
\* while nothing is selected) and the start_date, end_date and reason inputs.
\* Neither the form nor the table orders the two dates.
LeaveForms ==
  {[type |-> "sick", start_date |-> "2025-01-10", end_date |-> "2025-01-12",
    reason |-> "flu"],
   [type |-> "vacation", start_date |-> "2025-01-12", end_date |-> "2025-01-10",
    reason |-> "trip"],
   [type |-> "", start_date |-> "2025-01-10", end_date |-> "2025-01-12",
    reason |-> "flu"]}

\* A column of an insert payload, or the column's DEFAULT when the payload
\* leaves it out (status DEFAULT 'pending', the review columns nullable).
Col(p, c, default) == IF c \in DOMAIN p THEN p[c] ELSE default

\* An insert that stores the two dates in each other's column.
NewLeaveRowDatesSwapped(p) ==
  [user_id |-> p.user_id, type |-> p.type,
   start_date |-> p.end_date, end_date |-> p.start_date, reason |-> p.reason,
   status |-> Col(p, "status", "pending"),
   reviewed_by |-> Col(p, "reviewed_by", Null),
   reviewed_at |-> Col(p, "reviewed_at", Null)]

\* The row INSERT INTO leaves stores for payload p.
NewLeaveRow(p) ==
  [user_id |-> p.user_id, type |-> p.type,
   start_date |-> p.start_date, end_date |-> p.end_date, reason |-> p.reason,
   status |-> Col(p, "status", "pending"),
   reviewed_by |-> Col(p, "reviewed_by", Null),
   reviewed_at |-> Col(p, "reviewed_at", Null)]

\* INSERT as caller c is accepted: policy "Users can insert own leaves"
\* (WITH CHECK auth.uid() = user_id), user_id NOT NULL REFERENCES profiles,
\* type a leave_type, status a leave_status.
LeaveInsertAccepted(c, p) ==
  /\ p.user_id \in Users
  /\ c = p.user_id
  /\ p.type \in leave_type
  /\ Col(p, "status", "pending") \in leave_status

\* UPDATE leaves SET patch WHERE id = id as caller c: policy "Admins can
\* update leaves" (USING and WITH CHECK has_role(caller, admin)) keeps the row
\* out of the statement for any other caller, which then changes no row and
\* reports no error.
LeaveUpdate(c, id, patch) ==
  IF id \in DOMAIN leaves /\ has_role(c, "admin")
  THEN [leaves EXCEPT ![id] =
          [col \in DOMAIN @ |-> IF col \in DOMAIN patch THEN patch[col] ELSE @[col]]]
  ELSE leaves

\* A select policy on leaves that passes every row.
LeaveVisibleToAll(c, row) == TRUE

\* Policy "Users can view own leaves or admins view all".
LeaveVisible(c, row) == c = row.user_id \/ has_role(c, "admin")

RECURSIVE Descending(_)
Descending(S) ==
  IF S = {} THEN <<>>
  ELSE LET m == CHOOSE x \in S : \A y \in S : y <= x
       IN <<m>> \o Descending(S \ {m})

\* The columns fetchLeaves selects of a row (review_notes and created_at,
\* which nothing here writes, and the embedded profiles(name) are left out).
LeaveColumns(id, row) ==
  [id |-> id, type |-> row.type, start_date |-> row.start_date,
   end_date |-> row.end_date, reason |-> row.reason, status |-> row.status]

\* A fetchLeaves query that never adds the .eq("user_id", user.id) filter.
LeavesQueryUnfiltered(rows, c, ownOnly) ==
  LET ids == {id \in DOMAIN rows : LeaveVisible(c, rows[id])}
      order == Descending(ids)
  IN [k \in 1..Len(order) |-> LeaveColumns(order[k], rows[order[k]])]

\* The answer to the fetchLeaves query over table rows as caller c: the rows
\* the select policy passes, filtered by .eq("user_id", user.id) when the
\* view is not admin, newest first.
LeavesQuery(rows, c, ownOnly) ==
  LET ids == {id \in DOMAIN rows :
                /\ LeaveVisible(c, rows[id])
                /\ (ownOnly => rows[id].user_id = c)}
      order == Descending(ids)
  IN [k \in 1..Len(order) |-> LeaveColumns(order[k], rows[order[k]])]

\* A fetchLeaves whose query is answered from the table as it was before the
\* handler's write.
FetchLeavesBeforeWrite(s, rows, fail) ==
  /\ leavesList' = [leavesList EXCEPT ![s] =
        IF fail THEN @ ELSE LeavesQuery(leaves, user[s], ~isAdmin(s))]
  /\ leavesLoading' = [leavesLoading EXCEPT ![s] = FALSE]

\* fetchLeaves() of session s over table rows: setLeaves(data) unless the
\* request failed, setLoading(false) either way.
FetchLeaves(s, rows, fail) ==
  /\ leavesList' = [leavesList EXCEPT ![s] =
        IF fail THEN @ ELSE LeavesQuery(rows, user[s], ~isAdmin(s))]
  /\ leavesLoading' = [leavesLoading EXCEPT ![s] = FALSE]

\* useEffect(..., [user, isAdmin]): runs after mount and after either
\* dependency changed, and fetches when there is a user.
LeavesEffect(s, fail) ==
  /\ mounted[s]
  /\ leavesDeps[s] # <<user[s], isAdmin(s)>>
  /\ leavesDeps' = [leavesDeps EXCEPT ![s] = <<user[s], isAdmin(s)>>]
  /\ IF user[s] # NoUser THEN FetchLeaves(s, leaves, fail)
                         ELSE UNCHANGED <<leavesList, leavesLoading>>
  /\ UNCHANGED <<hrVars, storeVars, roleVars, console>>

\* handleSubmitLeave: insert {user_id, type, start_date, end_date, reason},
\* then (no error) fetchLeaves.  failW, failR: the write, the re-fetch fails.
HandleSubmitLeave(s, form, failW, failR) ==
  /\ mounted[s]
  /\ Len(leaves) < MaxLeaves
  /\ LET p == [user_id |-> user[s], type |-> form.type,
               start_date |-> form.start_date, end_date |-> form.end_date,
               reason |-> form.reason]
     IN IF ~failW /\ LeaveInsertAccepted(user[s], p)
        THEN /\ leaves' = Append(leaves, NewLeaveRow(p))
             /\ FetchLeaves(s, leaves', failR)
        ELSE UNCHANGED <<leaves, leavesList, leavesLoading>>
  /\ UNCHANGED <<hrVars, user_roles, roleVars, console, leavesDeps>>

\* handleApprove / handleReject share one shape: one update of status,
\* reviewed_by and reviewed_at where id = leaveId, then (no error) fetchLeaves.
\* The buttons are rendered for isAdmin && leave.status === "pending".
Review(s, id, status, at, failW, failR) ==
  /\ mounted[s]
  /\ isAdmin(s)
  /\ \E k \in DOMAIN leavesList[s] :
        leavesList[s][k].id = id /\ leavesList[s][k].status = "pending"
  /\ IF failW
     THEN UNCHANGED <<leaves, leavesList, leavesLoading>>
     ELSE /\ leaves' = LeaveUpdate(user[s], id,
                 [status |-> status, reviewed_by |-> user[s], reviewed_at |-> at])
          /\ FetchLeaves(s, leaves', failR)
  /\ UNCHANGED <<hrVars, user_roles, roleVars, console, leavesDeps>>

HandleApprove(s, id, at, failW, failR) == Review(s, id, "approved", at, failW, failR)

HandleReject(s, id, at, failW, failR) == Review(s, id, "rejected", at, failW, failR)

\* Data API requests sent without the view by an identity that does not hold
\* the admin role; the store evaluates them under the same policies.
ApiPayloads ==
  {[user_id |-> uid, type |-> "sick", start_date |-> "2025-01-10",
    end_date |-> "2025-01-12", reason |-> "flu", status |-> st,
    reviewed_by |-> by, reviewed_at |-> IF by = Null THEN Null ELSE ApiStamp] :
     uid \in Users, st \in leave_status, by \in Users \cup {Null}}

ApiPatches ==
  {[status |-> st, reviewed_by |-> "a", reviewed_at |-> ApiStamp] :
     st \in leave_status}

ApiInsertLeave(c, p) ==
  /\ ~has_role(c, "admin")
  /\ Len(leaves) < MaxLeaves
  /\ leaves' = IF LeaveInsertAccepted(c, p)
               THEN Append(leaves, NewLeaveRow(p)) ELSE leaves
  /\ UNCHANGED <<hrVars, user_roles, roleVars, console, viewVars>>

ApiUpdateLeave(c, id, patch) ==
  /\ ~has_role(c, "admin")
  /\ leaves' = LeaveUpdate(c, id, patch)
  /\ UNCHANGED <<hrVars, user_roles, roleVars, console, viewVars>>

\* ----------------------------------------------------- public.profiles
\* The values `name` takes in the rows handle_new_user made and in the edits
\* below, in the order .order("name") puts them.
Names == <<"Ann", "Bob", "Cy">>

NameRank(n) == CHOOSE k \in DOMAIN Names : Names[k] = n

\* Every listing of the set S that puts x before y only if key[x] <= key[y]:
\* the answers ORDER BY may give, rows with equal keys in either order.
RECURSIVE Orderings(_, _)
Orderings(S, key) ==
  IF S = {} THEN {<<>>}
  ELSE UNION {{<<x>> \o rest : rest \in Orderings(S \ {x}, key)} :
                x \in {y \in S : \A z \in S : key[y] <= key[z]}}

\* Policy "Users can view all profiles" of the first migration (USING true).
ProfileVisibleToAll(c, id, lv) == TRUE

\* Policy "Profiles viewable by owner or admin", the only SELECT policy on
\* profiles once all migrations are applied.  lv: the rows of leaves the
\* caller's own select policy lets the EXISTS subquery see.
ProfileVisible(c, id, lv) ==
  \/ c = id
  \/ has_role(c, "admin")
  \/ \E k \in DOMAIN lv :
       /\ LeaveVisible(c, lv[k])
       /\ lv[k].user_id = id
       /\ (lv[k].user_id = c \/ has_role(c, "admin"))

\* -------------------------------------------------- public.attendance
\* The instants of the day the model tells apart, in order.
Instants == <<"2025-01-15T09:00:00.000Z", "2025-01-15T09:02:00.000Z",
              "2025-01-15T10:31:00.000Z">>

\* new Date(ts).getTime(), in milliseconds since 2025-01-15T00:00:00Z.
getTime(ts) ==
  CASE ts = Instants[1] -> 32400000
    [] ts = Instants[2] -> 32520000
    [] ts = Instants[3] -> 37860000

\* NOW() of the store.
ServerNow == Instants[now]

\* How many instants a browser's clock may be behind the store's.
ClockLags == {0, 1}

\* new Date().toISOString() in a browser whose clock is lag instants behind.
ClientNow(lag) == Instants[IF now - lag < 1 THEN 1 ELSE now - lag]

\* The row INSERT INTO attendance stores for payload p: clock_in DEFAULT
\* NOW(), clock_out and notes nullable.
NewAttendanceRow(p) ==
  [user_id |-> p.user_id, clock_in |-> Col(p, "clock_in", ServerNow),
   clock_out |-> Col(p, "clock_out", Null), notes |-> Col(p, "notes", Null),
   marked_by |-> p.marked_by]

\* An insert policy that lets an identity mark its own attendance.
AttendanceInsertAcceptedOwn(c, p) ==
  /\ has_role(c, "admin") \/ c = p.user_id
  /\ p.user_id \in DOMAIN profiles
  /\ p.marked_by \in DOMAIN profiles

\* INSERT as caller c is accepted: policy "Only admins can insert attendance"
\* (WITH CHECK has_role(caller, admin)); user_id and marked_by NOT NULL
\* REFERENCES profiles.
AttendanceInsertAccepted(c, p) ==
  /\ has_role(c, "admin")
  /\ p.user_id \in DOMAIN profiles
  /\ p.marked_by \in DOMAIN profiles

\* UPDATE attendance SET patch WHERE id = id as caller c: policy "Only admins
\* can update attendance" keeps the row out of the statement for any other
\* caller, which then changes no row and reports no error.
AttendanceUpdate(c, id, patch) ==
  IF id \in DOMAIN attendance /\ has_role(c, "admin")
  THEN [attendance EXCEPT ![id] =
          [col \in DOMAIN @ |-> IF col \in DOMAIN patch THEN patch[col] ELSE @[col]]]
  ELSE attendance

\* DELETE FROM attendance WHERE id = id as caller c: policy "Only admins can
\* delete attendance".
AttendanceDelete(c, id) ==
  IF id \in DOMAIN attendance /\ has_role(c, "admin")
  THEN [i \in DOMAIN attendance \ {id} |-> attendance[i]]
  ELSE attendance

\* A select policy that passes every row.
AttendanceVisibleToAll(c, row) == TRUE

\* Policy "Users can view own attendance".
AttendanceVisible(c, row) == c = row.user_id \/ has_role(c, "admin")

\* The columns fetchAttendanceRecords selects of a row, with the embedded
\* profiles!attendance_user_id_fkey(name, email): null when the profile
\* policy hides the profile from the caller.
AttendanceColumns(c, id, row) ==
  [id |-> id, user_id |-> row.user_id, clock_in |-> row.clock_in,
   clock_out |-> row.clock_out, notes |-> row.notes,
   profiles |-> IF row.user_id \in DOMAIN profiles
                    /\ ProfileVisible(c, row.user_id, leaves)
                THEN [name |-> profiles[row.user_id].name,
                      email |-> profiles[row.user_id].email]
                ELSE [name |-> Null, email |-> Null]]

\* The answers the fetchAttendanceRecords query may get over table tbl as
\* caller c: the rows the select policy passes, filtered by
\* .eq("user_id", user.id) when the view is not admin, latest clock_in first.
AttendanceQuery(tbl, c, ownOnly) ==
  LET ids == {id \in DOMAIN tbl :
                /\ AttendanceVisible(c, tbl[id])
                /\ (ownOnly => tbl[id].user_id = c)}
      Later == [id \in ids |-> 0 - getTime(tbl[id].clock_in)]
  IN {[k \in DOMAIN order |-> AttendanceColumns(c, order[k], tbl[order[k]])] :
        order \in Orderings(ids, Later)}

\* error.message of a request refused by a WITH CHECK policy, and of one the
\* network lost.
RlsMessage(table) == <<"new row violates row-level security policy for table", table>>

FetchMessage == <<"Failed to fetch">>

Toast(title, description) == [title |-> title, description |-> description]

NoToast == Toast("", <<>>)

\* The answer to a read request: the table read, the caller, whether the
\* request was answered with an error, and the rows returned.
Response(table, c, error, rows) ==
  [table |-> table, caller |-> c, error |-> error, rows |-> rows]

NoResponse == Response("", NoUser, FALSE, {})

\* ------------------------------------------------------ Attendance view
\* The answers the Attendance view's fetchEmployees query may get as caller
\* c: id, name, email of the profiles c may see, ordered by name.
EmployeeOptions(c) ==
  LET ids == {id \in DOMAIN profiles : ProfileVisible(c, id, leaves)}
      ByName == [id \in ids |-> NameRank(profiles[id].name)]
  IN {[k \in DOMAIN order |->
         [id |-> order[k], name |-> profiles[order[k]].name,
          email |-> profiles[order[k]].email]] :
        order \in Orderings(ids, ByName)}

\* fetchAttendanceRecords() of session s over table tbl.  No user: nothing
\* but the finally.  A failed request: the error toast.  Otherwise
\* setAttendanceRecords(data).  setLoading(false) either way.  shown: the
\* toast the caller has put up before.
FetchAttendanceRecords(s, tbl, fail, shown) ==
  /\ attendanceLoading' = [attendanceLoading EXCEPT ![s] = FALSE]
  /\ IF user[s] = NoUser
     THEN attendanceRecords' = attendanceRecords /\ toast' = [toast EXCEPT ![s] = shown]
     ELSE IF fail
          THEN /\ attendanceRecords' = attendanceRecords
               /\ toast' = [toast EXCEPT ![s] = Toast("Error", FetchMessage)]
          ELSE /\ \E answer \in AttendanceQuery(tbl, user[s], ~isAdmin(s)) :
                    attendanceRecords' = [attendanceRecords EXCEPT ![s] = answer]
               /\ toast' = [toast EXCEPT ![s] = shown]

\* useEffect(..., [roleLoading, isAdmin]): once the role is resolved,
\* fetchAttendanceRecords and, for an admin view, fetchEmployees.
\* failA, failE: the one, the other request fails.
AttendanceEffect(s, failA, failE) ==
  /\ mounted[s]
  /\ attendanceDeps[s] # <<loading[s], isAdmin(s)>>
  /\ attendanceDeps' = [attendanceDeps EXCEPT ![s] = <<loading[s], isAdmin(s)>>]
  /\ IF loading[s]
     THEN UNCHANGED <<attendanceRecords, attendanceLoading, toast, employees>>
     ELSE /\ FetchAttendanceRecords(s, attendance, failA,
                IF isAdmin(s) /\ failE THEN Toast("Error", FetchMessage) ELSE toast[s])
          /\ IF isAdmin(s) /\ ~failE
             THEN \E answer \in EmployeeOptions(user[s]) :
                     employees' = [employees EXCEPT ![s] = answer]
             ELSE employees' = employees
  /\ UNCHANGED <<storeVars, roleVars, console, viewVars, hrStore,
                 dirViewVars, profileVars, markVars, response>>

\* The page shows its content, not "Loading...".
AttendanceRendered(s) == mounted[s] /\ ~loading[s] /\ ~attendanceLoading[s]

\* What the Mark Attendance card may hold when Clock In is clicked: the
\* Select state selectedEmployee ("" or one of the listed employees) and the
\* notes textarea, left empty unless another employee than the user is
\* selected.
ClockInForms(s) ==
  {[selectedEmployee |-> e,
    notes |-> IF e = "" \/ e = user[s] THEN "" ELSE "late"] :
     e \in {""} \cup {employees[s][k].id : k \in DOMAIN employees[s]}}

\* What the card of session s holds.
MarkForm(s) == [selectedEmployee |-> selectedEmployee[s], notes |-> notes[s]]

\* The texts typed into the notes textarea.
NoteTexts == {"", "late"}

\* <Select value={selectedEmployee} onValueChange={setSelectedEmployee}>: one
\* of the listed employees is chosen.  The card is rendered for isAdmin.
SetSelectedEmployee(s, e) ==
  /\ mounted[s] /\ ~loading[s] /\ ~attendanceLoading[s] /\ isAdmin(s)
  /\ \E k \in DOMAIN employees[s] : employees[s][k].id = e
  /\ e # selectedEmployee[s]
  /\ selectedEmployee' = [selectedEmployee EXCEPT ![s] = e]
  /\ UNCHANGED <<storeVars, roleVars, console, viewVars, hrStore, toast, employees,
                 dirViewVars, profileVars, attendanceRecords, attendanceLoading,
                 attendanceDeps, notes, response>>

\* <Textarea value={notes} onChange={(e) => setNotes(e.target.value)}>.
SetNotes(s, text) ==
  /\ mounted[s] /\ ~loading[s] /\ ~attendanceLoading[s] /\ isAdmin(s)
  /\ text # notes[s]
  /\ notes' = [notes EXCEPT ![s] = text]
  /\ UNCHANGED <<storeVars, roleVars, console, viewVars, hrStore, toast, employees,
                 dirViewVars, profileVars, attendanceRecords, attendanceLoading,
                 attendanceDeps, selectedEmployee, response>>

\* A guard that lets every caller through.
UnauthorizedNever(s) == FALSE

\* if (!isAdmin) at the head of handleClockIn and handleClockOut.
Unauthorized(s) == ~isAdmin(s)

\* handleClockIn of a render whose selectedEmployee and notes are those of
\* form.  Not isAdmin: the "Unauthorized" toast.  Nothing selected: the
\* "Please select an employee" toast.  Otherwise insert {user_id, marked_by,
\* notes: notes || null}, then (no error) the success toast,
\* setSelectedEmployee(""), setNotes("") and fetchAttendanceRecords.
\* failW, failR: the write, the re-fetch fails.
HandleClockIn(s, form, failW, failR) ==
  /\ mounted[s]
  /\ Len(attendance) < MaxAttendance
  /\ IF Unauthorized(s)
     THEN /\ toast' = [toast EXCEPT ![s] =
                 Toast("Unauthorized", <<"Only admins can mark attendance">>)]
          /\ selectedEmployee' = [selectedEmployee EXCEPT ![s] = form.selectedEmployee]
          /\ notes' = [notes EXCEPT ![s] = form.notes]
          /\ UNCHANGED <<attendance, attendanceRecords, attendanceLoading>>
     ELSE IF form.selectedEmployee = ""
     THEN /\ toast' = [toast EXCEPT ![s] =
                 Toast("Error", <<"Please select an employee">>)]
          /\ selectedEmployee' = [selectedEmployee EXCEPT ![s] = form.selectedEmployee]
          /\ notes' = [notes EXCEPT ![s] = form.notes]
          /\ UNCHANGED <<attendance, attendanceRecords, attendanceLoading>>
     ELSE IF user[s] = NoUser
     THEN /\ selectedEmployee' = [selectedEmployee EXCEPT ![s] = form.selectedEmployee]
          /\ notes' = [notes EXCEPT ![s] = form.notes]
          /\ UNCHANGED <<toast, attendance, attendanceRecords, attendanceLoading>>
     ELSE LET p == [user_id |-> form.selectedEmployee, marked_by |-> user[s],
                    notes |-> IF form.notes = "" THEN Null ELSE form.notes]
          IN IF failW \/ ~AttendanceInsertAccepted(user[s], p)
             THEN /\ toast' = [toast EXCEPT ![s] = Toast("Error",
                        IF failW THEN FetchMessage ELSE RlsMessage("attendance"))]
                  /\ selectedEmployee' =
                       [selectedEmployee EXCEPT ![s] = form.selectedEmployee]
                  /\ notes' = [notes EXCEPT ![s] = form.notes]
                  /\ UNCHANGED <<attendance, attendanceRecords, attendanceLoading>>
             ELSE /\ attendance' = Append(attendance, NewAttendanceRow(p))
                  /\ selectedEmployee' = [selectedEmployee EXCEPT ![s] = ""]
                  /\ notes' = [notes EXCEPT ![s] = ""]
                  /\ FetchAttendanceRecords(s, attendance', failR,
                        Toast("Success", <<"Clock in recorded successfully">>))
  /\ UNCHANGED <<storeVars, roleVars, console, viewVars, profiles, admin_data, now,
                 employees, dirViewVars, profileVars, attendanceDeps, response>>

\* The Clock In button of the rendered card (rendered for isAdmin) is clicked.
ClockInClick(s, failW, failR) ==
  /\ AttendanceRendered(s)
  /\ isAdmin(s)
  /\ HandleClockIn(s, MarkForm(s), failW, failR)

\* The card is filled in with form and Clock In is clicked.
MarkAttendance(s, form, failW, failR) ==
  /\ AttendanceRendered(s)
  /\ isAdmin(s)
  /\ form \in ClockInForms(s)
  /\ HandleClockIn(s, form, failW, failR)

\* handleClockOut(recordId).  Not isAdmin: the "Unauthorized" toast.
\* Otherwise one update of clock_out where id = recordId, then (no error) the
\* success toast and fetchAttendanceRecords.
HandleClockOut(s, recordId, lag, failW, failR) ==
  /\ mounted[s]
  /\ IF Unauthorized(s)
     THEN /\ toast' = [toast EXCEPT ![s] =
                 Toast("Unauthorized", <<"Only admins can mark attendance">>)]
          /\ UNCHANGED <<attendance, attendanceRecords, attendanceLoading>>
     ELSE IF failW
     THEN /\ toast' = [toast EXCEPT ![s] = Toast("Error", FetchMessage)]
          /\ UNCHANGED <<attendance, attendanceRecords, attendanceLoading>>
     ELSE /\ attendance' = AttendanceUpdate(user[s], recordId,
                 [clock_out |-> ClientNow(lag)])
          /\ FetchAttendanceRecords(s, attendance', failR,
                Toast("Success", <<"Clock out recorded successfully">>))
  /\ UNCHANGED <<storeVars, roleVars, console, viewVars, profiles, admin_data, now,
                 employees, dirViewVars, profileVars, attendanceDeps, markVars,
                 response>>

\* The Clock Out button, rendered for isAdmin on a listed record without
\* clock_out, is clicked.
ClockOutClick(s, recordId, lag, failW, failR) ==
  /\ AttendanceRendered(s)
  /\ isAdmin(s)
  /\ \E k \in DOMAIN attendanceRecords[s] :
        attendanceRecords[s][k].id = recordId /\ attendanceRecords[s][k].clock_out = Null
  /\ HandleClockOut(s, recordId, lag, failW, failR)

\* The row's `duration`, in tenths of an hour, for a record with clock_out:
\* Math.round((clockOut.getTime() - clockIn.getTime()) / (1000 * 60 * 60) * 10),
\* Math.round rounding halves up.
DurationTenths(record) ==
  (getTime(record.clock_out) - getTime(record.clock_in) + 180000) \div 360000

\* The Duration cell: {duration ? `${duration} hours` : "-"}, duration being
\* null without clock_out; the number 0 is falsy as null is.
DurationCell(record) ==
  IF record.clock_out # Null /\ DurationTenths(record) # 0
  THEN [text |-> "hours", tenths |-> DurationTenths(record)]
  ELSE [text |-> "-", tenths |-> 0]

\* Time passes.
Tick ==
  /\ now < Len(Instants)
  /\ now' = now + 1
  /\ UNCHANGED <<storeVars, roleVars, console, viewVars, profiles, admin_data,
                 attendance, hrViews>>

\* Data API requests on attendance sent without the view by an identity that
\* does not hold the admin role.
ApiAttendancePayloads ==
  {[user_id |-> uid, marked_by |-> by, clock_in |-> Instants[1]] :
     uid \in Users, by \in Users}

ApiAttendancePatches ==
  {[clock_out |-> t] : t \in {Null, Instants[1]}} \cup {[user_id |-> "a"]}

ApiInsertAttendance(c, p) ==
  /\ ~has_role(c, "admin")
  /\ Len(attendance) < MaxAttendance
  /\ attendance' = IF AttendanceInsertAccepted(c, p)
                   THEN Append(attendance, NewAttendanceRow(p)) ELSE attendance
  /\ UNCHANGED <<storeVars, roleVars, console, viewVars, profiles, admin_data, now,
                 hrViews>>

ApiUpdateAttendance(c, id, patch) ==
  /\ ~has_role(c, "admin")
  /\ attendance' = AttendanceUpdate(c, id, patch)
  /\ UNCHANGED <<storeVars, roleVars, console, viewVars, profiles, admin_data, now,
                 hrViews>>

ApiDeleteAttendance(c, id) ==
  /\ ~has_role(c, "admin")
  /\ attendance' = AttendanceDelete(c, id)
  /\ UNCHANGED <<storeVars, roleVars, console, viewVars, profiles, admin_data, now,
                 hrViews>>

\* ------------------------------------------------- profiles, admin_data
\* A select policy on admin_data that passes every row.
AdminDataVisibleToAll(c, row) == TRUE

\* Policy "Only admins can view admin data".
AdminDataVisible(c, row) == has_role(c, "admin")

\* Policy "Users can view own role or admins can view all".
UserRoleVisible(c, row) == c = row.user_id \/ has_role(c, "admin")

\* A DELETE policy on profiles for admins.
ProfileDeletableByAdmin(c, id) == has_role(c, "admin")

\* The policies FOR DELETE on profiles: the migrations create none, and with
\* row level security enabled a command without a policy reaches no row.
ProfileDeletable(c, id) == FALSE

\* The profiles DELETE FROM profiles WHERE id = id removes as caller c.
ProfileDeleteTargets(c, id) ==
  {j \in DOMAIN profiles : j = id /\ ProfileDeletable(c, j)}

\* The delete is refused by a foreign key without ON DELETE: a leave another
\* identity owns names the profile as reviewed_by, or an attendance record
\* another identity owns names it as marked_by.
ProfileDeleteBlocked(gone) ==
  \/ \E k \in DOMAIN leaves :
       leaves[k].reviewed_by \in gone /\ leaves[k].user_id \notin gone
  \/ \E k \in DOMAIN attendance :
       attendance[k].marked_by \in gone /\ attendance[k].user_id \notin gone

\* DELETE FROM profiles WHERE id = id as caller c, with the ON DELETE CASCADE
\* of user_roles, admin_data, leaves and attendance; an error changes nothing.
ProfileDelete(c, id) ==
  LET gone == ProfileDeleteTargets(c, id)
  IN IF gone = {} \/ ProfileDeleteBlocked(gone)
     THEN UNCHANGED <<profiles, user_roles, admin_data, leaves, attendance>>
     ELSE /\ profiles' = [j \in DOMAIN profiles \ gone |-> profiles[j]]
          /\ user_roles' = {row \in user_roles : row.user_id \notin gone}
          /\ admin_data' = {row \in admin_data : row.user_id \notin gone}
          /\ leaves' = SelectSeq(leaves, LAMBDA row : row.user_id \notin gone)
          /\ attendance' = SelectSeq(attendance, LAMBDA row : row.user_id \notin gone)

\* The answers the Employees view's fetchEmployees query may get as caller c:
\* the profiles c may see, ordered by name, each with the embedded
\* user_roles(role) and, when the view is admin, admin_data(position), both
\* holding the rows their own select policies pass.  ad: the admin_data table.
EmployeesQuery(c, withAdminData, ad) ==
  LET ids == {id \in DOMAIN profiles : ProfileVisible(c, id, leaves)}
      ByName == [id \in ids |-> NameRank(profiles[id].name)]
      Row(id) ==
        [id |-> id, name |-> profiles[id].name, email |-> profiles[id].email,
         department |-> profiles[id].department,
         hire_date |-> profiles[id].hire_date,
         user_roles |-> {row.role : row \in
                           {r \in user_roles : r.user_id = id /\ UserRoleVisible(c, r)}},
         admin_data |->
           [requested |-> withAdminData,
            rows |-> IF withAdminData
                     THEN {row.position : row \in
                             {r \in ad : r.user_id = id /\ AdminDataVisible(c, r)}}
                     ELSE {}]]
  IN {[k \in DOMAIN order |-> Row(order[k])] : order \in Orderings(ids, ByName)}

\* ------------------------------------------------------- Employees view
\* fetchEmployees() of session s: setEmployees(data) unless the request
\* failed (then the console line and the error toast), setLoading(false)
\* either way.  shown: the toast the caller has put up before.
FetchEmployees(s, fail, shown) ==
  /\ employeesLoading' = [employeesLoading EXCEPT ![s] = FALSE]
  /\ IF fail
     THEN /\ employees' = employees
          /\ console' = [console EXCEPT ![s] = "Error fetching employees:"]
          /\ toast' = [toast EXCEPT ![s] = Toast("error", <<"Failed to load employees">>)]
     ELSE /\ \E answer \in EmployeesQuery(user[s], isAdmin(s), admin_data) :
               employees' = [employees EXCEPT ![s] = answer]
          /\ console' = console
          /\ toast' = [toast EXCEPT ![s] = shown]

\* useEffect(() => fetchEmployees(), [isAdmin]).
EmployeesEffect(s, fail) ==
  /\ mounted[s]
  /\ employeesDeps[s] # <<isAdmin(s)>>
  /\ employeesDeps' = [employeesDeps EXCEPT ![s] = <<isAdmin(s)>>]
  /\ FetchEmployees(s, fail, toast[s])
  /\ UNCHANGED <<storeVars, roleVars, viewVars, hrStore, employeeToDelete,
                 deleteDialogOpen, profileVars, attViewVars, response>>

\* handleDeleteClick(employeeId): the button of a listed employee, rendered
\* for isAdmin.
HandleDeleteClick(s, employeeId) ==
  /\ mounted[s] /\ ~employeesLoading[s] /\ isAdmin(s)
  /\ ~deleteDialogOpen[s]
  /\ \E k \in DOMAIN employees[s] : employees[s][k].id = employeeId
  /\ employeeToDelete' = [employeeToDelete EXCEPT ![s] = employeeId]
  /\ deleteDialogOpen' = [deleteDialogOpen EXCEPT ![s] = TRUE]
  /\ UNCHANGED <<storeVars, roleVars, console, viewVars, hrStore, toast, employees,
                 employeesLoading, employeesDeps, profileVars, attViewVars, response>>

\* Cancel: onOpenChange closes the dialog.
DeleteDialogCancel(s) ==
  /\ mounted[s] /\ deleteDialogOpen[s]
  /\ deleteDialogOpen' = [deleteDialogOpen EXCEPT ![s] = FALSE]
  /\ UNCHANGED <<storeVars, roleVars, console, viewVars, hrStore, toast, employees,
                 employeesLoading, employeesDeps, employeeToDelete, profileVars,
                 attViewVars, response>>

\* handleDeleteConfirm: delete from profiles where id = employeeToDelete; no
\* error: the success toast and fetchEmployees; an error: the console line and
\* the error toast; the dialog closes either way.
HandleDeleteConfirm(s, failW, failR) ==
  /\ mounted[s] /\ deleteDialogOpen[s]
  /\ deleteDialogOpen' = [deleteDialogOpen EXCEPT ![s] = FALSE]
  /\ employeeToDelete' = [employeeToDelete EXCEPT ![s] = Null]
  /\ IF employeeToDelete[s] = Null
     THEN UNCHANGED <<profiles, user_roles, admin_data, leaves, attendance,
                      employees, employeesLoading, console, toast>>
     ELSE IF failW
     THEN /\ console' = [console EXCEPT ![s] = "Error deleting employee:"]
          /\ toast' = [toast EXCEPT ![s] = Toast("error", <<"Failed to delete employee">>)]
          /\ UNCHANGED <<profiles, user_roles, admin_data, leaves, attendance,
                         employees, employeesLoading>>
     ELSE LET gone == ProfileDeleteTargets(user[s], employeeToDelete[s])
          IN /\ ProfileDelete(user[s], employeeToDelete[s])
             /\ IF gone # {} /\ ProfileDeleteBlocked(gone)
                THEN /\ console' = [console EXCEPT ![s] = "Error deleting employee:"]
                     /\ toast' = [toast EXCEPT ![s] =
                           Toast("error", <<"Failed to delete employee">>)]
                     /\ UNCHANGED <<employees, employeesLoading>>
                ELSE FetchEmployees(s, failR,
                        Toast("success", <<"Employee deleted successfully">>))
  /\ UNCHANGED <<roleVars, viewVars, now, employeesDeps, profileVars, attViewVars,
                 response>>

\* ------------------------------------------------- data API: directory
\* DELETE FROM profiles WHERE id = id sent without the view.
ApiDeleteProfile(c, id) ==
  /\ ProfileDelete(c, id)
  /\ UNCHANGED <<roleVars, console, viewVars, now, hrViews>>

\* SELECT * FROM profiles sent without the view.
ApiSelectProfiles(c) ==
  /\ response' = Response("profiles", c, FALSE,
        {[id |-> id, name |-> profiles[id].name, email |-> profiles[id].email,
          department |-> profiles[id].department,
          hire_date |-> profiles[id].hire_date] :
           id \in {j \in DOMAIN profiles : ProfileVisible(c, j, leaves)}})
  /\ UNCHANGED <<storeVars, roleVars, console, viewVars, hrStore, toast, employees,
                 dirViewVars, profileVars, attViewVars>>

\* SELECT * FROM admin_data sent without the view.
ApiSelectAdminData(c) ==
  /\ response' = Response("admin_data", c, FALSE,
        {row \in admin_data : AdminDataVisible(c, row)})
  /\ UNCHANGED <<storeVars, roleVars, console, viewVars, hrStore, toast, employees,
                 dirViewVars, profileVars, attViewVars>>

\* The rows SELECT * FROM attendance returns over table tbl as caller c.
AttendanceRows(tbl, c) ==
  {[id |-> id, user_id |-> tbl[id].user_id, clock_in |-> tbl[id].clock_in,
    clock_out |-> tbl[id].clock_out, notes |-> tbl[id].notes,
    marked_by |-> tbl[id].marked_by] :
     id \in {j \in DOMAIN tbl : AttendanceVisible(c, tbl[j])}}

\* SELECT * FROM attendance sent without the view.
ApiSelectAttendance(c) ==
  /\ response' = Response("attendance", c, FALSE, AttendanceRows(attendance, c))
  /\ UNCHANGED <<storeVars, roleVars, console, viewVars, hrStore, toast, employees,
                 dirViewVars, profileVars, attViewVars>>

\* --------------------------------------------------------- Profile view
\* An update policy on profiles that does not look at the caller.
ProfileUpdatableByAll(c, id) == TRUE

\* Policy "Users can update own profile": USING and WITH CHECK
\* auth.uid() = id.
ProfileUpdatable(c, id) == c = id

\* UPDATE profiles SET patch WHERE id = id as caller c.  The policy keeps any
\* other identity's row out of the statement, which then changes nothing; a
\* new email another profile holds breaks UNIQUE(email) and is an error.
ProfileUpdateRefused(c, id, patch) ==
  /\ id \in DOMAIN profiles /\ ProfileUpdatable(c, id)
  /\ "email" \in DOMAIN patch
  /\ \E j \in DOMAIN profiles \ {id} : profiles[j].email = patch.email

ProfileUpdate(c, id, patch) ==
  IF id \in DOMAIN profiles /\ ProfileUpdatable(c, id)
     /\ ~ProfileUpdateRefused(c, id, patch)
  THEN [profiles EXCEPT ![id] =
          [col \in DOMAIN @ |-> IF col \in DOMAIN patch THEN patch[col] ELSE @[col]]]
  ELSE profiles

\* useState<Profile | null>(null): no profile loaded.
NoProfile == [name |-> Null, email |-> Null, department |-> Null, hire_date |-> Null]

\* .select("name, email, department, hire_date").eq("id", uid).single() as
\* caller uid: the row, or an error when the result is not exactly one row.
ProfileSingle(uid) ==
  IF uid \in DOMAIN profiles /\ ProfileVisible(uid, uid, leaves)
  THEN [error |-> FALSE, data |-> profiles[uid]]
  ELSE [error |-> TRUE, data |-> NoProfile]

\* useEffect(..., [user]): with a user, fetchProfile: setProfile(data), or on
\* an error the console line and the error toast; setLoading(false) either way.
ProfileEffect(s, fail) ==
  /\ mounted[s]
  /\ profileDeps[s] # <<user[s]>>
  /\ profileDeps' = [profileDeps EXCEPT ![s] = <<user[s]>>]
  /\ IF user[s] = NoUser
     THEN UNCHANGED <<profile, profileLoading, console, toast>>
     ELSE LET resp == IF fail THEN [error |-> TRUE, data |-> NoProfile]
                      ELSE ProfileSingle(user[s])
          IN /\ profileLoading' = [profileLoading EXCEPT ![s] = FALSE]
             /\ IF resp.error
                THEN /\ profile' = profile
                     /\ console' = [console EXCEPT ![s] = "Error fetching profile:"]
                     /\ toast' = [toast EXCEPT ![s] =
                           Toast("error", <<"Failed to load profile">>)]
                ELSE /\ profile' = [profile EXCEPT ![s] = resp.data]
                     /\ UNCHANGED <<console, toast>>
  /\ UNCHANGED <<storeVars, roleVars, viewVars, hrStore, employees, dirViewVars,
                 attViewVars, response>>

\* What the Personal Information form can hold at submit: the required name
\* input and the department input.
ProfileForms == {[name |-> "Cy", department |-> "IT"]}

\* handleSubmit: the form is rendered once the profile is loaded.  Update
\* {name, department} where id = user.id; no error: the success toast and
\* setProfile(prev => ({...prev, ...updates})); an error: the console line
\* and the error toast.
HandleSubmit(s, form, failW) ==
  /\ mounted[s] /\ ~profileLoading[s] /\ profile[s] # NoProfile
  /\ LET updates == [name |-> form.name, department |-> form.department]
     IN IF failW \/ ProfileUpdateRefused(user[s], user[s], updates)
        THEN /\ console' = [console EXCEPT ![s] = "Error updating profile:"]
             /\ toast' = [toast EXCEPT ![s] =
                   Toast("error", <<"Failed to update profile">>)]
             /\ UNCHANGED <<profiles, profile>>
        ELSE /\ profiles' = ProfileUpdate(user[s], user[s], updates)
             /\ toast' = [toast EXCEPT ![s] =
                   Toast("success", <<"Profile updated successfully">>)]
             /\ profile' = [profile EXCEPT ![s] =
                   [col \in DOMAIN @ |->
                      IF col \in DOMAIN updates THEN updates[col] ELSE @[col]]]
             /\ console' = console
  /\ UNCHANGED <<storeVars, roleVars, viewVars, admin_data, attendance, now,
                 employees, dirViewVars, profileLoading, profileDeps, attViewVars,
                 response>>

\* UPDATE profiles sent without the view: a new email (free, or the one "a"
\* signed up with), a new hire date, a new name.
ApiProfilePatches ==
  {[email |-> "eve@corp.io"], [email |-> "ann@corp.io"],
   [hire_date |-> "2020-01-01"], [name |-> "Cy"]}

ApiUpdateProfile(c, id, patch) ==
  /\ profiles' = ProfileUpdate(c, id, patch)
  /\ UNCHANGED <<storeVars, roleVars, console, viewVars, admin_data, attendance, now,
                 hrViews>>

\* ------------------------------------------------------------- behaviours
\* handle_new_user gave every identity the role "user"; the project owner
\* then made "a" an admin.  No page is mounted, nobody is signed in.
InitStore ==
  /\ user_roles = {[user_id |-> "a", role |-> "admin"],
                   [user_id |-> "u", role |-> "user"]}
  /\ leaves = <<>>

\* The profiles handle_new_user made at the two signups (the second without
\* department metadata, the first without position metadata); no attendance
\* marked yet.
SignupProfiles ==
  [id \in Users |->
     IF id = "a"
     THEN [name |-> "Ann", email |-> "ann@corp.io", department |-> "HR",
           hire_date |-> "2024-01-01"]
     ELSE [name |-> "Bob", email |-> "bob@corp.io", department |-> Null,
           hire_date |-> "2024-06-01"]]

InitProfiles ==
  /\ profiles = SignupProfiles
  /\ admin_data = {[user_id |-> "u", position |-> "Engineer"]}

InitHrStore ==
  /\ InitProfiles
  /\ attendance = <<>>
  /\ now = 1

\* useState initial values of the Attendance, Employees and Profile pages.
InitHrViews ==
  /\ toast = [s \in Sessions |-> NoToast]
  /\ employees = [s \in Sessions |-> <<>>]
  /\ employeesLoading = [s \in Sessions |-> TRUE]
  /\ employeesDeps = [s \in Sessions |-> <<>>]
  /\ employeeToDelete = [s \in Sessions |-> Null]
  /\ deleteDialogOpen = [s \in Sessions |-> FALSE]
  /\ profile = [s \in Sessions |-> NoProfile]
  /\ profileLoading = [s \in Sessions |-> TRUE]
  /\ profileDeps = [s \in Sessions |-> <<>>]
  /\ response = NoResponse
  /\ attendanceRecords = [s \in Sessions |-> <<>>]
  /\ attendanceLoading = [s \in Sessions |-> TRUE]
  /\ attendanceDeps = [s \in Sessions |-> <<>>]
  /\ selectedEmployee = [s \in Sessions |-> ""]
  /\ notes = [s \in Sessions |-> ""]

InitRole ==
  /\ InitStore
  /\ InitHrStore
  /\ InitHrViews
  /\ user = [s \in Sessions |-> NoUser]
  /\ mounted = [s \in Sessions |-> FALSE]
  /\ role = [s \in Sessions |-> Null]
  /\ loading = [s \in Sessions |-> TRUE]
  /\ roleQ = [s \in Sessions |-> <<>>]
  /\ console = [s \in Sessions |-> ""]
  /\ leavesList = [s \in Sessions |-> <<>>]
  /\ leavesLoading = [s \in Sessions |-> TRUE]
  /\ leavesDeps = [s \in Sessions |-> <<>>]

\* The resolver of one session and the role store.  Resolvers of different
\* sessions share no state, so one session is driven.
OneSession == {1}

\* The identities whose role management requests the policy lets through,
\* and the rows UNIQUE(user_id, role) lets them add; any other request leaves
\* user_roles as it is.
Admins == {c \in Users : has_role(c, "admin")}

RoleRowAbsent(uid, r) == [user_id |-> uid, role |-> r] \notin user_roles

\* The identities whose role rows are managed while a resolver runs: the
\* resolver treats every identity alike, so "u" goes through every set of
\* rows (none, user, admin, both) while "a" keeps its admin row.
ManagedUsers == {"u"}

NextRole ==
  \/ \E s \in OneSession : Mount(s)
  \/ \E s \in OneSession : Unmount(s)
  \/ \E s \in OneSession : \E uid \in Users \cup {NoUser} : AuthChange(s, uid)
  \/ \E s \in OneSession : Focus(s)
  \/ \E s \in OneSession : \E i \in 1..MaxInFlight : \E fail \in BOOLEAN :
        RoleServe(s, i, fail)
  \/ \E s \in OneSession : \E i \in 1..MaxInFlight : RoleResume(s, i)
  \/ \E c \in Admins : \E uid \in ManagedUsers : \E r \in app_role :
        RoleRowAbsent(uid, r) /\ RoleInsert(c, uid, r)
  \/ \E c \in Admins : \E uid \in ManagedUsers : \E row \in RoleRowsOf(uid) :
        \E r \in app_role : RoleRowAbsent(uid, r) /\ RoleUpdate(c, row, r)
  \/ \E c \in Admins : \E uid \in ManagedUsers : \E row \in RoleRowsOf(uid) :
        RoleDelete(c, row)

SpecRole == InitRole /\ [][NextRole]_vars

\* The awaited request of fetchRole is settled, by the store's answer or by
\* an error of the client, and the event loop then runs what follows the
\* await: a query in flight is not left unanswered for ever, nor an answer
\* unhandled.
RoleFairness ==
  \A s \in OneSession :
    /\ WF_vars(\E i \in 1..MaxInFlight : \E fail \in BOOLEAN : RoleServe(s, i, fail))
    /\ WF_vars(\E i \in 1..MaxInFlight : RoleResume(s, i))

\* The resolver alone, the role rows staying as they are.
NextResolve ==
  \/ \E s \in OneSession : Mount(s)
  \/ \E s \in OneSession : Unmount(s)
  \/ \E s \in OneSession : \E uid \in Users \cup {NoUser} : AuthChange(s, uid)
  \/ \E s \in OneSession : Focus(s)
  \/ \E s \in OneSession : \E i \in 1..MaxInFlight : \E fail \in BOOLEAN :
        RoleServe(s, i, fail)
  \/ \E s \in OneSession : \E i \in 1..MaxInFlight : RoleResume(s, i)

SpecRoleFair == InitRole /\ [][NextResolve]_vars /\ RoleFairness

\* The Leaves views of the sessions S and the leaves table.  Each page of S
\* is mounted with a signed-in user and a role its resolver has already
\* delivered: the role the store holds for the user, or one it held before
\* (a stale one).  The other sessions have no page.
InitSessions(S) ==
  /\ user \in [Sessions -> Users \cup {NoUser}]
  /\ role \in [Sessions -> app_role \cup {Null}]
  /\ \A s \in Sessions :
       IF s \in S THEN user[s] \in Users /\ role[s] \in app_role
                  ELSE user[s] = NoUser /\ role[s] = Null
  /\ mounted = [s \in Sessions |-> s \in S]
  /\ loading = [s \in Sessions |-> s \notin S]
  /\ roleQ = [s \in Sessions |-> <<>>]
  /\ console = [s \in Sessions |-> ""]
  /\ leavesList = [s \in Sessions |-> <<>>]
  /\ leavesLoading = [s \in Sessions |-> TRUE]
  /\ leavesDeps = [s \in Sessions |-> <<>>]

InitViews(S) == InitStore /\ InitSessions(S)

LeavesStep(S) ==
  \/ \E s \in S : \E fail \in BOOLEAN : LeavesEffect(s, fail)
  \/ \E s \in S : \E form \in LeaveForms : \E failW, failR \in BOOLEAN :
        HandleSubmitLeave(s, form, failW, failR)
  \/ \E s \in S : \E id \in 1..MaxLeaves : \E at \in Stamps :
        \E failW, failR \in BOOLEAN : HandleApprove(s, id, at, failW, failR)
  \/ \E s \in S : \E id \in 1..MaxLeaves : \E at \in Stamps :
        \E failW, failR \in BOOLEAN : HandleReject(s, id, at, failW, failR)
  \/ \E c \in Users : \E p \in ApiPayloads : ApiInsertLeave(c, p)
  \/ \E c \in Users : \E id \in 1..MaxLeaves : \E patch \in ApiPatches :
        ApiUpdateLeave(c, id, patch)

\* Two Leaves views side by side.
InitLeaves == InitViews(Sessions) /\ InitHrStore /\ InitHrViews

NextLeaves == LeavesStep(Sessions)

SpecLeaves == InitLeaves /\ [][NextLeaves]_vars

\* One Leaves view; the other identity reaches the table through the data API.
InitSubmit == InitViews(OneSession) /\ InitHrStore /\ InitHrViews

NextSubmit == LeavesStep(OneSession)

SpecSubmit == InitSubmit /\ [][NextSubmit]_vars

\* One Attendance view, mounted with a signed-in user and a role its resolver
\* has already delivered (possibly a stale one), the attendance table and the
\* clock; the other identity reaches the table through the data API.  The
\* table is empty, or holds the open record an admin marked for "u" at the
\* first instant.
InitAttendance ==
  /\ InitViews(OneSession)
  /\ InitProfiles
  /\ InitHrViews
  /\ now = 1
  /\ attendance \in
       {<<>>, <<NewAttendanceRow([user_id |-> "u", marked_by |-> "a",
                                  notes |-> "late"])>>}

\* A handler's write and its re-fetch: both answered, the write refused by
\* the network, or the re-fetch (which follows an answered write only).
RequestFailures ==
  {[write |-> FALSE, read |-> FALSE], [write |-> TRUE, read |-> FALSE],
   [write |-> FALSE, read |-> TRUE]}

NextAttendance ==
  \/ \E s \in OneSession : \E failA, failE \in BOOLEAN : AttendanceEffect(s, failA, failE)
  \/ \E s \in OneSession : \E form \in ClockInForms(s) : \E fails \in RequestFailures :
        MarkAttendance(s, form, fails.write, fails.read)
  \/ \E s \in OneSession : \E id \in DOMAIN attendance : \E lag \in ClockLags :
        \E fails \in RequestFailures : ClockOutClick(s, id, lag, fails.write, fails.read)
  \/ Tick
  \/ \E c \in Users : \E p \in ApiAttendancePayloads : ApiInsertAttendance(c, p)
  \/ \E c \in Users : \E id \in DOMAIN attendance : \E patch \in ApiAttendancePatches :
        ApiUpdateAttendance(c, id, patch)
  \/ \E c \in Users : \E id \in DOMAIN attendance : ApiDeleteAttendance(c, id)

SpecAttendance == InitAttendance /\ [][NextAttendance]_vars

\* The pending leave a submission by uid stored.
SickLeave(uid) ==
  NewLeaveRow([user_id |-> uid, type |-> "sick", start_date |-> "2025-01-10",
               end_date |-> "2025-01-12", reason |-> "flu"])

\* One Leaves view over a table that is empty or holds a leave of "a".
InitLeavesRead ==
  /\ user_roles = {[user_id |-> "a", role |-> "admin"],
                   [user_id |-> "u", role |-> "user"]}
  /\ leaves \in {<<>>, <<SickLeave("a")>>}
  /\ InitSessions(OneSession)
  /\ InitHrStore
  /\ InitHrViews

SpecLeavesRead == InitLeavesRead /\ [][NextSubmit]_vars

\* One Employees view, mounted with a signed-in user and a role its resolver
\* has already delivered (possibly a stale one), the tables it reads and the
\* requests the data API takes on them.  Leaves, confidential records and
\* attendance records exist for both identities, or for none.
InitDirectory ==
  /\ user_roles = {[user_id |-> "a", role |-> "admin"],
                   [user_id |-> "u", role |-> "user"]}
  /\ leaves \in {<<>>, <<SickLeave("a"), SickLeave("u")>>}
  /\ InitSessions(OneSession)
  /\ profiles = SignupProfiles
  /\ admin_data \in {{}, {[user_id |-> "a", position |-> "Director"],
                          [user_id |-> "u", position |-> "Engineer"]}}
  /\ now = 1
  /\ attendance \in
       {<<>>, <<NewAttendanceRow([user_id |-> "a", marked_by |-> "a"]),
                NewAttendanceRow([user_id |-> "u", marked_by |-> "a"])>>}
  /\ InitHrViews

NextDirectory ==
  \/ \E s \in OneSession : \E fail \in BOOLEAN : EmployeesEffect(s, fail)
  \/ \E s \in OneSession : \E id \in Users : HandleDeleteClick(s, id)
  \/ \E s \in OneSession : DeleteDialogCancel(s)
  \/ \E s \in OneSession : \E failW, failR \in BOOLEAN : HandleDeleteConfirm(s, failW, failR)
  \/ \E c \in Users : \E id \in Users : ApiDeleteProfile(c, id)
  \/ \E c \in Users : ApiSelectProfiles(c)
  \/ \E c \in Users : ApiSelectAdminData(c)
  \/ \E c \in Users : ApiSelectAttendance(c)

SpecDirectory == InitDirectory /\ [][NextDirectory]_vars

\* One Profile view, mounted with a signed-in user, the profiles and the role
\* rows, and the requests the data API takes on them.
InitAccount ==
  /\ InitStore
  /\ InitSessions(OneSession)
  /\ InitHrStore
  /\ InitHrViews

NextAccount ==
  \/ \E s \in OneSession : \E fail \in BOOLEAN : ProfileEffect(s, fail)
  \/ \E s \in OneSession : \E form \in ProfileForms : \E failW \in BOOLEAN :
        HandleSubmit(s, form, failW)
  \/ \E c \in Users : \E id \in Users : \E patch \in ApiProfilePatches :
        ApiUpdateProfile(c, id, patch)
  \/ \E c \in Users : \E id \in Users : ApiDeleteProfile(c, id)
  \/ \E c \in Users : \E uid \in Users : \E r \in app_role : RoleInsert(c, uid, r)
  \/ \E c \in Users : \E row \in user_roles : \E r \in app_role : RoleUpdate(c, row, r)
  \/ \E c \in Users : \E row \in user_roles : RoleDelete(c, row)

SpecAccount == InitAccount /\ [][NextAccount]_vars

\* One browser tab of a signed-in user.  The page it opens calls useRole, so
\* page and resolver mount together, and the page's first effect runs with
\* the resolver's initial state; the tab then stays on that page: the page of
\* the tab is the one whose effect has run.
LeavesPage(s) == attendanceDeps[s] = <<>> /\ employeesDeps[s] = <<>>

AttendancePage(s) == leavesDeps[s] = <<>> /\ employeesDeps[s] = <<>>

EmployeesPage(s) == leavesDeps[s] = <<>> /\ attendanceDeps[s] = <<>>

\* Both identities have a pending leave and an attendance record, or none has.
InitPages ==
  /\ user_roles = {[user_id |-> "a", role |-> "admin"],
                   [user_id |-> "u", role |-> "user"]}
  /\ leaves \in {<<>>, <<SickLeave("a"), SickLeave("u")>>}
  /\ user \in [Sessions -> Users \cup {NoUser}]
  /\ \A s \in Sessions : user[s] = NoUser <=> s \notin OneSession
  /\ mounted = [s \in Sessions |-> FALSE]
  /\ role = [s \in Sessions |-> Null]
  /\ loading = [s \in Sessions |-> TRUE]
  /\ roleQ = [s \in Sessions |-> <<>>]
  /\ console = [s \in Sessions |-> ""]
  /\ leavesList = [s \in Sessions |-> <<>>]
  /\ leavesLoading = [s \in Sessions |-> TRUE]
  /\ leavesDeps = [s \in Sessions |-> <<>>]
  /\ InitProfiles
  /\ now = 1
  /\ attendance \in
       {<<>>, <<NewAttendanceRow([user_id |-> "a", marked_by |-> "a", notes |-> Null]),
                NewAttendanceRow([user_id |-> "u", marked_by |-> "a", notes |-> "late"])>>}
  /\ InitHrViews

NextPages ==
  \/ \E s \in OneSession : Mount(s)
  \/ \E s \in OneSession : \E i \in 1..MaxInFlight : \E fail \in BOOLEAN : RoleServe(s, i, fail)
  \/ \E s \in OneSession : \E i \in 1..MaxInFlight : RoleResume(s, i)
  \/ \E s \in OneSession : \E fail \in BOOLEAN : LeavesPage(s) /\ LeavesEffect(s, fail)
  \/ \E s \in OneSession : \E form \in LeaveForms : \E fails \in RequestFailures :
        leavesDeps[s] # <<>> /\ HandleSubmitLeave(s, form, fails.write, fails.read)
  \/ \E s \in OneSession : \E id \in DOMAIN leaves : \E at \in Stamps :
        \E fails \in RequestFailures : HandleApprove(s, id, at, fails.write, fails.read)
  \/ \E s \in OneSession : \E id \in DOMAIN leaves : \E at \in Stamps :
        \E fails \in RequestFailures : HandleReject(s, id, at, fails.write, fails.read)
  \/ \E s \in OneSession : \E failA, failE \in BOOLEAN :
        AttendancePage(s) /\ AttendanceEffect(s, failA, failE)
  \/ \E s \in OneSession : \E e \in ManagedUsers : SetSelectedEmployee(s, e)
  \/ \E s \in OneSession : \E text \in NoteTexts : SetNotes(s, text)
  \/ \E s \in OneSession : \E fails \in RequestFailures :
        ClockInClick(s, fails.write, fails.read)
  \/ \E s \in OneSession : \E id \in DOMAIN attendance : \E fails \in RequestFailures :
        ClockOutClick(s, id, 0, fails.write, fails.read)
  \/ \E s \in OneSession : \E fails \in RequestFailures :
        /\ attendanceDeps[s] # <<>> /\ ~isAdmin(s)
        /\ HandleClockIn(s, MarkForm(s), fails.write, fails.read)
  \/ \E s \in OneSession : \E id \in DOMAIN attendance : \E fails \in RequestFailures :
        /\ attendanceDeps[s] # <<>> /\ ~isAdmin(s)
        /\ HandleClockOut(s, id, 0, fails.write, fails.read)
  \/ \E s \in OneSession : \E fail \in BOOLEAN : EmployeesPage(s) /\ EmployeesEffect(s, fail)
  \/ \E s \in OneSession : \E id \in Users : HandleDeleteClick(s, id)
  \/ \E s \in OneSession : DeleteDialogCancel(s)
  \/ \E s \in OneSession : \E fails \in RequestFailures :
        HandleDeleteConfirm(s, fails.write, fails.read)

SpecPages == InitPages /\ [][NextPages]_vars

\* ------------------------------------------------------------------ signup
\* raw_user_meta_data of a signup: each key given or left out (Null); the
\* hire_date given is a date or a text that is none.
SignupMetadata ==
  [name : {Null, "Cy"}, department : {Null, "HR"},
   hire_date : {Null, "2024-06-01", "soon"}, position : {Null, "Engineer"}]

SignupEmails == {"ann@corp.io", "bob@corp.io"}

\* CURRENT_DATE of the signups.
CurrentDate == "2025-01-15"

\* A handle_new_user that adds the admin_data row at every signup.
AdminDataProvisionedAlways(meta) == TRUE

\* IF NEW.raw_user_meta_data->>'position' IS NOT NULL.
AdminDataProvisioned(meta) == meta.position # Null

\* handle_new_user raises: (text)::DATE of a text that is no date, or the
\* email is that of another profile (email TEXT NOT NULL UNIQUE).
SignupRaises(email, meta) ==
  \/ meta.hire_date \notin {Null, "2024-06-01"}
  \/ \E j \in DOMAIN profiles : profiles[j].email = email

\* An identity id is inserted into auth.users with email and metadata meta;
\* trigger on_auth_user_created runs handle_new_user in the same transaction,
\* so an error it raises leaves no identity and no row.  response: what the
\* signup call is answered with.
Signup(id, email, meta) ==
  /\ id \notin DOMAIN profiles
  /\ response' = Response("auth.users", id, SignupRaises(email, meta), {meta})
  /\ IF SignupRaises(email, meta)
     THEN UNCHANGED <<profiles, user_roles, admin_data>>
     ELSE /\ profiles' =
               [j \in DOMAIN profiles \cup {id} |->
                  IF j = id
                  THEN [name |-> IF meta.name = Null THEN "New User" ELSE meta.name,
                        email |-> email,
                        department |-> meta.department,
                        hire_date |-> IF meta.hire_date # Null THEN meta.hire_date
                                      ELSE CurrentDate]
                  ELSE profiles[j]]
          /\ user_roles' = user_roles \cup {[user_id |-> id, role |-> "user"]}
          /\ admin_data' =
               IF AdminDataProvisioned(meta)
               THEN admin_data \cup {[user_id |-> id, position |-> meta.position]}
               ELSE admin_data
  /\ UNCHANGED <<leaves, roleVars, console, viewVars, attendance, now, toast,
                 employees, dirViewVars, profileVars, attViewVars>>

\* The tables before the first signup; no page is open.
InitSignup ==
  /\ user_roles = {}
  /\ leaves = <<>>
  /\ InitSessions({})
  /\ profiles = [id \in {} |-> NoProfile]
  /\ admin_data = {}
  /\ attendance = <<>>
  /\ now = 1
  /\ InitHrViews

NextSignup ==
  \E id \in Users : \E email \in SignupEmails : \E meta \in SignupMetadata :
     Signup(id, email, meta)

SpecSignup == InitSignup /\ [][NextSignup]_vars

\* ------------------------------------------------------------ properties
\* Steps of the resolver, told by what they change.
\* Some query of s in flight gets its answer.
SomeServed(s) == Len(roleQ'[s]) = Len(roleQ[s]) /\ roleQ'[s] # roleQ[s]

\* The store (or the network) answers the i-th query of s in flight.
ServedStep(s, i) ==
  /\ roleQ[s][i].st = "sent"
  /\ roleQ'[s][i].st = "done"

\* fetchRole of s resumes with the answer to one of its queries.
SomeResumed(s) == mounted'[s] /\ Len(roleQ'[s]) = Len(roleQ[s]) - 1

\* fetchRole of s resumes with the answer to its i-th query.
ResumedStep(s, i) ==
  /\ roleQ[s][i].st = "done"
  /\ roleQ'[s] = RemoveAt(roleQ[s], i)

\* fetchRole of s is called (mount, identity change or focus).
FetchRoleCalled(s) ==
  /\ mounted'[s]
  /\ Mount(s) \/ Focus(s) \/ \E uid \in Users \cup {NoUser} : AuthChange(s, uid)

\* C1: a role query answered while its identity holds no user_roles row
\* carries no role (or fails), and a resolver resuming with such an answer
\* ends with role "user" and isAdmin false, never "admin".
C1_NoRowYieldsUser ==
  [][\A s \in Sessions :
       /\ SomeServed(s) =>
            \A i \in DOMAIN roleQ[s] :
              (ServedStep(s, i) /\ RoleRowsOf(roleQ[s][i].uid) = {})
                => roleQ'[s][i].data = Null
       /\ SomeResumed(s) =>
            \A i \in DOMAIN roleQ[s] :
              (ResumedStep(s, i) /\ roleQ[s][i].data = Null)
                => (role'[s] = "user" /\ ~isAdmin(s)')]_vars

\* An identity without a row whose resolver has finished: role "user".
C1_Witness ==
  \E s \in Sessions :
    /\ mounted[s] /\ user[s] \in Users /\ RoleRowsOf(user[s]) = {}
    /\ roleQ[s] = <<>> /\ ~loading[s] /\ console[s] = ""
    /\ role[s] = "user"

\* C4: a failed role query (the request fails, or the single-row lookup
\* finds several rows) is answered with an error, and a resolver resuming
\* with an error logs it and ends with role "user", never "admin".
C4_FailureYieldsUser ==
  [][\A s \in Sessions :
       /\ SomeServed(s) =>
            \A i \in DOMAIN roleQ[s] :
              (\/ ServedStep(s, i) /\ Cardinality(RoleRowsOf(roleQ[s][i].uid)) > 1
               \/ ServedStep(s, i) /\ RoleServe(s, i, TRUE))
                => roleQ'[s][i].error
       /\ SomeResumed(s) =>
            \A i \in DOMAIN roleQ[s] :
              (ResumedStep(s, i) /\ roleQ[s][i].error)
                => /\ role'[s] = "user"
                   /\ ~isAdmin(s)'
                   /\ console'[s] = "Error fetching role:"
                   /\ ~loading'[s]]_vars

\* An identity the store holds as admin whose query failed: role "user".
C4_Witness ==
  \E s \in Sessions :
    /\ mounted[s] /\ user[s] \in Users /\ has_role(user[s], "admin")
    /\ roleQ[s] = <<>> /\ console[s] = "Error fetching role:"
    /\ role[s] = "user"

\* C5 (as claimed): every identity holds at most one user_roles row.
C5_AtMostOneRole ==
  \A uid \in Users : Cardinality(RoleRowsOf(uid)) <= 1

\* C6: a query answered without failure while its identity holds exactly one
\* row carries that row's role, and a resolver resuming with a role ends with
\* exactly that role, isAdmin being true exactly for "admin".
C6_SingleRowYieldsItsRole ==
  [][\A s \in Sessions :
       /\ SomeServed(s) =>
            \A i \in DOMAIN roleQ[s] :
              (/\ ServedStep(s, i)
               /\ Cardinality(RoleRowsOf(roleQ[s][i].uid)) = 1
               /\ RoleServe(s, i, FALSE))
                => /\ ~roleQ'[s][i].error
                   /\ \A row \in RoleRowsOf(roleQ[s][i].uid) :
                        roleQ'[s][i].data = row.role
       /\ SomeResumed(s) =>
            \A i \in DOMAIN roleQ[s] :
              (ResumedStep(s, i) /\ ~roleQ[s][i].error /\ roleQ[s][i].data \in app_role)
                => /\ role'[s] = roleQ[s][i].data
                   /\ isAdmin(s)' <=> (roleQ[s][i].data = "admin")]_vars

\* An identity whose single row is admin, resolved to admin.
C6_Witness ==
  \E s \in Sessions :
    /\ mounted[s] /\ user[s] \in Users /\ roleQ[s] = <<>> /\ ~loading[s]
    /\ RoleRowsOf(user[s]) = {[user_id |-> user[s], role |-> "admin"]}
    /\ role[s] = "admin" /\ isAdmin(s)

\* C7: every call of fetchRole without an identity sets role to null
\* (isAdmin false) and loading to false, and sends no query.
C7_NoIdentityNoQuery ==
  [][\A s \in Sessions :
       (user'[s] = NoUser /\ FetchRoleCalled(s))
         => /\ role'[s] = Null
            /\ ~isAdmin(s)'
            /\ ~loading'[s]
            /\ roleQ'[s] = roleQ[s]]_vars

\* Signed out after a resolution that logged an error: the role is back to null.
C7_Witness ==
  \E s \in Sessions :
    /\ mounted[s] /\ user[s] = NoUser /\ console[s] # ""
    /\ role[s] = Null /\ ~loading[s]

\* The role the store's own check has_role gives an identity.
StoreRole(uid) == IF has_role(uid, "admin") THEN "admin" ELSE "user"

\* C8 (as claimed): a focus event of a mounted resolver with an identity
\* sends a fresh query; the answer the store gives that query delivers the
\* role the identity holds in the store at that moment; and the resolver
\* takes its role from that answer when the query completes.
C8_FocusReflectsStore ==
  [][\A s \in Sessions :
       /\ (Focus(s) /\ user[s] \in Users)
            => /\ Len(roleQ'[s]) = Len(roleQ[s]) + 1
               /\ roleQ'[s][Len(roleQ'[s])].uid = user[s]
               /\ roleQ'[s][Len(roleQ'[s])].st = "sent"
       /\ SomeServed(s) =>
            \A i \in DOMAIN roleQ[s] :
              (ServedStep(s, i) /\ roleQ[s][i].via = "focus" /\ RoleServe(s, i, FALSE))
                => RoleFromResponse(roleQ'[s][i]) = StoreRole(roleQ[s][i].uid)
       /\ SomeResumed(s) =>
            \A i \in DOMAIN roleQ[s] :
              (ResumedStep(s, i) /\ roleQ[s][i].via = "focus")
                => role'[s] = RoleFromResponse(roleQ[s][i])]_vars

\* Leaves: the review columns of a row.
Review3(row) == <<row.status, row.reviewed_by, row.reviewed_at>>

\* C2 (as claimed): no step changes the status, reviewer or review timestamp
\* of a leave that is approved or rejected.
C2_TerminalIsFinal ==
  [][\A id \in DOMAIN leaves :
       leaves[id].status \in {"approved", "rejected"}
         => (id \in DOMAIN leaves' /\ Review3(leaves'[id]) = Review3(leaves[id]))]_vars

\* A request of an identity that does not hold the admin role: sent by the
\* Leaves view of one of its sessions, or directly to the data API.
NonAdminRequest ==
  \E c \in Users :
    /\ ~has_role(c, "admin")
    /\ \/ \E p \in ApiPayloads : ApiInsertLeave(c, p)
       \/ \E id \in 1..MaxLeaves : \E patch \in ApiPatches : ApiUpdateLeave(c, id, patch)
       \/ \E s \in Sessions : \E form \in LeaveForms : \E failW, failR \in BOOLEAN :
            user[s] = c /\ HandleSubmitLeave(s, form, failW, failR)
       \/ \E s \in Sessions : \E id \in 1..MaxLeaves : \E at \in Stamps :
            \E failW, failR \in BOOLEAN :
              /\ user[s] = c
              /\ HandleApprove(s, id, at, failW, failR)
                   \/ HandleReject(s, id, at, failW, failR)

\* C3 (as claimed): a request of a non-admin identity leaves the review
\* columns of every existing leave unchanged and creates only leaves that are
\* pending with no reviewer and no review timestamp.
C3_NonAdminNeverReviews ==
  [][NonAdminRequest =>
       \A id \in DOMAIN leaves' :
         IF id \in DOMAIN leaves
         THEN Review3(leaves'[id]) = Review3(leaves[id])
         ELSE Review3(leaves'[id]) = <<"pending", Null, Null>>]_vars

\* C9 (as claimed): every approved or rejected leave carries the admin who
\* reviewed it and a review timestamp.
C9_ReviewedHasReviewer ==
  \A id \in DOMAIN leaves :
    leaves[id].status \in {"approved", "rejected"}
      => /\ leaves[id].reviewed_by \in Users
         /\ has_role(leaves[id].reviewed_by, "admin")
         /\ leaves[id].reviewed_at # Null

\* C10: a submission of the Leaves form with a leave type by a signed-in user
\* U, whose insert request reaches the store, adds exactly one row; read back
\* as U (the view's own query) that row appears exactly once, with the
\* submitted type, dates and reason and status "pending"; the stored row is
\* owned by U with no reviewer and no review timestamp; no other row changes;
\* and the view's re-fetch, unless it fails, displays that read.
C10_SubmitRoundTrip ==
  [][\A s \in Sessions : \A form \in LeaveForms : \A failR \in BOOLEAN :
       (/\ HandleSubmitLeave(s, form, FALSE, failR)
        /\ user[s] \in Users
        /\ form.type \in leave_type)
         => LET n == Len(leaves) + 1
                read == LeavesQuery(leaves', user[s], ~isAdmin(s))
                hits == {k \in DOMAIN read : read[k].id = n}
            IN /\ Len(leaves') = n
               /\ \A id \in DOMAIN leaves : leaves'[id] = leaves[id]
               /\ Cardinality(hits) = 1
               /\ \A k \in hits :
                    read[k] = [id |-> n, type |-> form.type,
                               start_date |-> form.start_date,
                               end_date |-> form.end_date,
                               reason |-> form.reason, status |-> "pending"]
               /\ leaves'[n].user_id = user[s]
               /\ leaves'[n].reviewed_by = Null
               /\ leaves'[n].reviewed_at = Null
               /\ ~failR => leavesList'[s] = read]_vars

\* A non-admin view showing exactly its user's own pending submission while
\* the table also holds a leave of someone else.
C10_Witness ==
  \E s \in Sessions :
    /\ ~isAdmin(s)
    /\ Len(leaves) = 2
    /\ leaves[1].user_id # user[s]
    /\ leaves[2] = [user_id |-> user[s], type |-> "vacation",
                    start_date |-> "2025-01-12", end_date |-> "2025-01-10",
                    reason |-> "trip", status |-> "pending",
                    reviewed_by |-> Null, reviewed_at |-> Null]
    /\ leavesList[s] = <<[id |-> 2, type |-> "vacation",
                          start_date |-> "2025-01-12", end_date |-> "2025-01-10",
                          reason |-> "trip", status |-> "pending"]>>
\* ------------------------------------------------------------- attendance
\* A request on attendance of an identity that does not hold the admin role:
\* sent directly to the data API, or by the Attendance view of its session
\* (whose resolver delivered "admin" before the role was taken away).
NonAdminAttendanceRequest ==
  \/ /\ hrViews' = hrViews
     /\ \E c \in Users :
          /\ ~has_role(c, "admin")
          /\ \/ \E p \in ApiAttendancePayloads : ApiInsertAttendance(c, p)
             \/ \E id \in 1..MaxAttendance : \E patch \in ApiAttendancePatches :
                  ApiUpdateAttendance(c, id, patch)
             \/ \E id \in 1..MaxAttendance : ApiDeleteAttendance(c, id)
  \/ \E s \in Sessions :
       /\ user[s] \in Users /\ ~has_role(user[s], "admin")
       /\ \/ \E form \in ClockInForms(s) : \E failW, failR \in BOOLEAN :
               MarkAttendance(s, form, failW, failR)
          \/ \E id \in 1..MaxAttendance : \E lag \in ClockLags :
               \E failW, failR \in BOOLEAN : ClockOutClick(s, id, lag, failW, failR)

\* C11: an insert, update or delete on attendance requested by an identity
\* that does not hold the admin role, through the data API or through its
\* Attendance view, leaves the attendance table as it was; and the view's
\* insert, when it reaches the store, is answered with the policy's error.
C11_NonAdminNeverMarks ==
  [][/\ attendance' = attendance \/ ~NonAdminAttendanceRequest
     /\ \A s \in Sessions :
          \/ toast'[s] = Toast("Error", RlsMessage("attendance"))
          \/ ~(user[s] \in Users /\ ~has_role(user[s], "admin"))
          \/ \A form \in ClockInForms(s) : \A failR \in BOOLEAN :
               ~(form.selectedEmployee # "" /\ MarkAttendance(s, form, FALSE, failR))]_vars

\* The Attendance view of a non-admin identity, listing its own open record,
\* has sent an insert: the insert was refused and the table holds that one
\* record, still open.
C11_Witness ==
  \E s \in Sessions :
    /\ user[s] \in Users /\ ~has_role(user[s], "admin") /\ isAdmin(s)
    /\ toast[s] = Toast("Error", RlsMessage("attendance"))
    /\ Len(attendance) = 1
    /\ attendance[1].user_id = user[s] /\ attendance[1].clock_out = Null
    /\ attendanceRecords[s] # <<>>
\* ---------------------------------------------------- confidential reads
\* The part of table tbl an identity owns.
OwnPart(tbl, c) == [id \in {j \in DOMAIN tbl : tbl[j].user_id = c} |-> tbl[id]]

\* fetchEmployees of session s runs and is answered.
EmployeesFetched(s) ==
  \/ EmployeesEffect(s, FALSE)
  \/ employeeToDelete[s] # Null /\ HandleDeleteConfirm(s, FALSE, FALSE)

\* C12: for an identity that does not hold the admin role, a read of
\* admin_data is answered without error and with no row; a read of attendance
\* is answered without error with exactly what it would return if the table
\* held the caller's own records only; and what its Employees view fetches is
\* what it would fetch if admin_data were empty: the view of a non-admin does
\* not ask for admin_data, and a view that does ask receives none.
C12_NonAdminReadsNothingOfOthers ==
  [][/\ \A c \in Users :
          (~has_role(c, "admin") /\ ApiSelectAdminData(c))
            => response' = Response("admin_data", c, FALSE, {})
     /\ \A c \in Users :
          (~has_role(c, "admin") /\ ApiSelectAttendance(c))
            => /\ ~response'.error
               /\ response'.rows = AttendanceRows(OwnPart(attendance, c), c)
               /\ \A row \in response'.rows : row.user_id = c
     /\ \A s \in Sessions :
          (user[s] \in Users /\ ~has_role(user[s], "admin") /\ EmployeesFetched(s))
            => /\ employees'[s] \in EmployeesQuery(user[s], isAdmin(s), {})
               /\ \A k \in DOMAIN employees'[s] :
                    /\ employees'[s][k].admin_data.rows = {}
                    /\ ~isAdmin(s) => ~employees'[s][k].admin_data.requested]_vars

\* Both identities have a confidential record and an attendance record; the
\* Employees view of the non-admin, still holding "admin", has fetched with
\* admin_data requested, and the non-admin's read of attendance has returned
\* its own record.
C12_Witness ==
  \E s \in Sessions :
    /\ user[s] \in Users /\ ~has_role(user[s], "admin") /\ isAdmin(s)
    /\ Cardinality(admin_data) = 2 /\ Len(attendance) = 2
    /\ employees[s] # <<>> /\ employees[s][1].admin_data.requested
    /\ response.table = "attendance" /\ response.caller = user[s]
    /\ Cardinality(response.rows) = 1
\* ------------------------------------------------------ attendance lifecycle
\* C13 (as claimed): no step changes the clock-out of an attendance record
\* whose clock-out is set, or removes it.
C13_ClockOutIsFinal ==
  [][\A id \in DOMAIN attendance :
       attendance[id].clock_out # Null
         => /\ id \in DOMAIN attendance'
            /\ attendance'[id].clock_out = attendance[id].clock_out]_vars

\* C14 (as claimed): the clock-out of every closed attendance record is not
\* earlier than its clock-in.
C14_ClockOutNotBeforeClockIn ==
  \A id \in DOMAIN attendance :
    attendance[id].clock_out # Null
      => getTime(attendance[id].clock_out) >= getTime(attendance[id].clock_in)

\* C20 (as claimed): the Duration cell of a listed record without clock-out
\* shows no duration, and that of a listed record with clock-in T1 and
\* clock-out T2 > T1 shows a number of hours with one decimal that is within
\* half a tenth of an hour of T2 - T1.
C20_DurationShown ==
  \A s \in Sessions : \A k \in DOMAIN attendanceRecords[s] :
    LET record == attendanceRecords[s][k]
        cell == DurationCell(record)
    IN IF record.clock_out = Null
       THEN cell.text = "-"
       ELSE getTime(record.clock_out) > getTime(record.clock_in)
              => LET d == getTime(record.clock_out) - getTime(record.clock_in)
                          - cell.tenths * 360000
                 IN /\ cell.text = "hours"
                    /\ 2 * d <= 360000 /\ 2 * d >= -360000

\* --------------------------------------------------------------- profiles
\* C15 (as claimed): a delete of a profile that reaches the store, sent by the
\* Employees view or directly, removes the profile when the caller holds the
\* admin role, and changes no profile when the caller does not.
C15_AdminDeleteRemoves ==
  [][\A c \in Users : \A id \in DOMAIN profiles :
       (\/ ApiDeleteProfile(c, id)
        \/ \E s \in Sessions : \E failR \in BOOLEAN :
             /\ user[s] = c /\ employeeToDelete[s] = id
             /\ HandleDeleteConfirm(s, FALSE, failR))
         => IF has_role(c, "admin")
            THEN id \notin DOMAIN profiles'
            ELSE profiles' = profiles]_vars

\* A profile update requested by identity c: sent by the Profile view of its
\* session, or directly to the data API.
ProfileUpdateRequest(c) ==
  \/ \E id \in Users : \E patch \in ApiProfilePatches : ApiUpdateProfile(c, id, patch)
  \/ \E s \in Sessions : \E form \in ProfileForms : \E failW \in BOOLEAN :
       user[s] = c /\ HandleSubmit(s, form, failW)

\* C16 (as claimed): a profile update requested by an identity that does not
\* hold the admin role leaves the email and the hire date of its own profile
\* and every field of every other profile unchanged.
C16_SelfEditNameDepartmentOnly ==
  [][\A c \in Users :
       (~has_role(c, "admin") /\ ProfileUpdateRequest(c))
         => /\ DOMAIN profiles' = DOMAIN profiles
            /\ \A id \in DOMAIN profiles \ {c} : profiles'[id] = profiles[id]
            /\ c \in DOMAIN profiles
                 => /\ profiles'[c].email = profiles[c].email
                    /\ profiles'[c].hire_date = profiles[c].hire_date]_vars

\* ------------------------------------------------------------ role rows
\* A request of identity c that writes to the store in the account
\* behaviour: on user_roles, on profiles, or by its Profile view.
AccountWriteBy(c) ==
  \/ \E uid \in Users : \E r \in app_role : RoleInsert(c, uid, r)
  \/ \E row \in user_roles : \E r \in app_role : RoleUpdate(c, row, r)
  \/ \E row \in user_roles : RoleDelete(c, row)
  \/ \E id \in Users : ApiDeleteProfile(c, id)
  \/ ProfileUpdateRequest(c)

\* C17: a write requested by an identity that does not hold the admin role
\* leaves user_roles as it was; every step that changes user_roles is an
\* insert, update or delete on it by an identity holding the admin role; and
\* an identity without any role row fails has_role and with it each policy
\* that asks for the admin role.
C17_RolesManagedByAdminsOnly ==
  [][/\ \A c \in Users :
          (~has_role(c, "admin") /\ AccountWriteBy(c)) => user_roles' = user_roles
     /\ user_roles' # user_roles
          => \E c \in Users :
               /\ has_role(c, "admin")
               /\ \/ \E uid \in Users : \E r \in app_role : RoleInsert(c, uid, r)
                  \/ \E row \in user_roles : \E r \in app_role : RoleUpdate(c, row, r)
                  \/ \E row \in user_roles : RoleDelete(c, row)
     /\ \A uid \in Users :
          RoleRowsOf(uid) = {}
            => /\ ~has_role(uid, "admin")
               /\ \A row \in user_roles \cup admin_data :
                    ~ManageRolesAllowed(uid, row) /\ ~AdminDataVisible(uid, row)
               /\ \A p \in ApiAttendancePayloads : ~AttendanceInsertAccepted(uid, p)
               /\ \A id \in Users : ProfileDeleteTargets(uid, id) = {}]_vars

\* An admin has taken the role row of the other identity away, and the only
\* role row left is the admin's; the identity without a row has saved its
\* profile in its Profile view.
C17_Witness ==
  \E s \in Sessions :
    /\ user[s] \in Users /\ RoleRowsOf(user[s]) = {}
    /\ toast[s] = Toast("success", <<"Profile updated successfully">>)
    /\ profiles[user[s]].name = "Cy"
    /\ \E c \in Users : user_roles = {[user_id |-> c, role |-> "admin"]}

\* ------------------------------------------------------------- leave reads
\* fetchLeaves of session s runs and is answered, in a step that changes
\* what the view holds (every other step of a handler changes nothing at all).
LeavesFetched(s) ==
  /\ user[s] \in Users
  /\ \/ leavesList'[s] # leavesList[s]
     \/ leavesLoading'[s] # leavesLoading[s]
     \/ leavesDeps'[s] # leavesDeps[s]
  /\ \/ LeavesEffect(s, FALSE)
     \/ \E form \in LeaveForms :
          form.type \in leave_type /\ HandleSubmitLeave(s, form, FALSE, FALSE)
     \/ \E id \in 1..MaxLeaves : \E at \in Stamps :
          HandleApprove(s, id, at, FALSE, FALSE) \/ HandleReject(s, id, at, FALSE, FALSE)

\* The ids of the leaves session s lists.
ListedLeaves(list) == {list[k].id : k \in DOMAIN list}

\* C18: what an answered fetchLeaves lists is, for an identity that does not
\* hold the admin role, exactly the leaves it owns, whatever role its view
\* holds; for an identity holding the admin role in a view that resolved
\* "admin", every leave of the table; and no view of a non-admin identity
\* ever lists a leave of someone else.
C18_LeaveReadVisibility ==
  [][\A s \in Sessions :
       /\ LeavesFetched(s) =>
            LET own == {id \in DOMAIN leaves' : leaves'[id].user_id = user[s]}
            IN ListedLeaves(leavesList'[s]) =
                 IF has_role(user[s], "admin") /\ isAdmin(s)
                 THEN DOMAIN leaves' ELSE own
       /\ (user[s] \in Users /\ ~has_role(user[s], "admin"))
            => \A id \in ListedLeaves(leavesList'[s]) :
                 id \in DOMAIN leaves' /\ leaves'[id].user_id = user[s]]_vars

\* The table holds a leave of "a" and one of the non-admin; the non-admin's
\* view, holding "admin", lists the second only.
C18_Witness ==
  \E s \in Sessions :
    /\ user[s] \in Users /\ ~has_role(user[s], "admin") /\ isAdmin(s)
    /\ Len(leaves) = 2
    /\ leaves[1].user_id # user[s] /\ leaves[2].user_id = user[s]
    /\ ListedLeaves(leavesList[s]) = {2}

\* ----------------------------------------------------------- profile reads
\* The ids of the profiles in an answer.
ProfileIds(rows) == {row.id : row \in rows}

\* C19: a read of profiles returns to an identity that does not hold the
\* admin role exactly its own profile, and to an identity holding it every
\* profile; the Employees view of a non-admin identity, whatever role it
\* holds, fetches that identity's profile and no other.
C19_ProfileReadVisibility ==
  [][/\ \A c \in Users :
          ApiSelectProfiles(c)
            => /\ ~response'.error
               /\ ProfileIds(response'.rows) =
                    IF has_role(c, "admin") THEN DOMAIN profiles ELSE {c}
               /\ \A row \in response'.rows :
                    row = [id |-> row.id, name |-> profiles[row.id].name,
                           email |-> profiles[row.id].email,
                           department |-> profiles[row.id].department,
                           hire_date |-> profiles[row.id].hire_date]
     /\ \A s \in Sessions :
          (user[s] \in Users /\ EmployeesFetched(s))
            => {employees'[s][k].id : k \in DOMAIN employees'[s]} =
                 IF has_role(user[s], "admin") THEN DOMAIN profiles ELSE {user[s]}]_vars

\* Both identities have a leave; the non-admin has read profiles and got one
\* row, and its Employees view, holding "admin", lists one employee.
C19_Witness ==
  \E s \in Sessions :
    /\ user[s] \in Users /\ ~has_role(user[s], "admin") /\ isAdmin(s)
    /\ Len(leaves) = 2
    /\ Len(employees[s]) = 1 /\ employees[s][1].id = user[s]
    /\ response.table = "profiles" /\ response.caller = user[s]
    /\ ProfileIds(response.rows) = {user[s]}

\* ------------------------------------------------------ overlapping queries
\* C26 (as claimed): when fetchRole resumes with the answer to a query that
\* is not the one issued last, or that was issued for another identity than
\* the current one, the role stays as it was; and the role is never "admin"
\* while a mounted resolver has no identity.
C26_LatestQueryWins ==
  [][\A s \in Sessions :
       /\ SomeResumed(s) =>
            \A i \in DOMAIN roleQ[s] :
              (ResumedStep(s, i) /\ (i # Len(roleQ[s]) \/ roleQ[s][i].uid # user[s]))
                => role'[s] = role[s]
       /\ (mounted'[s] /\ user'[s] = NoUser) => role'[s] # "admin"]_vars
\* ------------------------------------------------------ handler guards
\* handleClockIn or handleClockOut of session s runs.
ClockHandlerRuns(s) ==
  \/ \E fails \in RequestFailures : HandleClockIn(s, MarkForm(s), fails.write, fails.read)
  \/ \E id \in DOMAIN attendance : \E fails \in RequestFailures :
       HandleClockOut(s, id, 0, fails.write, fails.read)

\* C24: a run of handleClockIn or handleClockOut in a view that is not admin
\* leaves the attendance table, the selected employee, the notes and the
\* listed records as they are and puts up the "Unauthorized" toast; a Clock
\* In click in an admin view with no employee selected leaves the same four
\* as they are.
C24_GuardsBeforeWrite ==
  [][\A s \in OneSession :
       \/ /\ attendance' = attendance
          /\ markVars' = markVars
          /\ attendanceRecords' = attendanceRecords
          /\ \/ isAdmin(s)
             \/ toast'[s] = Toast("Unauthorized", <<"Only admins can mark attendance">>)
       \/ ~ClockHandlerRuns(s)
       \/ isAdmin(s) /\ ~(selectedEmployee[s] = "" /\ \E fails \in RequestFailures :
                             ClockInClick(s, fails.write, fails.read))]_vars

\* The handler has turned away a view that is not admin although its user
\* holds the admin role in the store and the view lists records.
C24_Witness ==
  \E s \in OneSession :
    /\ ~isAdmin(s) /\ has_role(user[s], "admin")
    /\ toast[s] = Toast("Unauthorized", <<"Only admins can mark attendance">>)
    /\ attendanceRecords[s] # <<>>
    /\ attendance # <<>>
\* ------------------------------------------------------ client-side scope
\* C25: a list a view that is not admin receives holds rows of the view's
\* user only (leaves and attendance records), its Employees query does not
\* request admin_data, and while the role is loading the Attendance view
\* keeps its initial list and loading state.
C25_NonAdminQueriesScoped ==
  [][\A s \in OneSession :
       /\ (leavesList'[s] # leavesList[s] /\ ~isAdmin(s))
            => \A k \in DOMAIN leavesList'[s] :
                 leaves'[leavesList'[s][k].id].user_id = user[s]
       /\ (attendanceRecords'[s] # attendanceRecords[s] /\ ~isAdmin(s))
            => \A k \in DOMAIN attendanceRecords'[s] :
                 attendanceRecords'[s][k].user_id = user[s]
       /\ (employees'[s] # employees[s] /\ ~isAdmin(s) /\ employeesDeps'[s] # <<>>)
            => \A k \in DOMAIN employees'[s] : ~employees'[s][k].admin_data.requested
       /\ (mounted[s] /\ loading[s])
            => /\ attendanceRecords'[s] = <<>>
               /\ attendanceLoading'[s]
               /\ employees'[s] = <<>> \/ employeesDeps'[s] # <<>>]_vars

\* A view that is not admin, whose user holds the admin role in the store,
\* lists that user's leave alone while the table holds a leave of another
\* identity.
C25_Witness ==
  \E s \in OneSession :
    /\ mounted[s] /\ ~isAdmin(s) /\ has_role(user[s], "admin")
    /\ Len(leavesList[s]) = 1
    /\ \E id \in DOMAIN leaves : leaves[id].user_id # user[s]
\* ------------------------------------------------------ read after write
\* A handler of session s runs whose write the network loses.
WriteLost(s) ==
  \/ \E form \in LeaveForms : HandleSubmitLeave(s, form, TRUE, FALSE)
  \/ \E id \in DOMAIN leaves : \E at \in Stamps :
       HandleApprove(s, id, at, TRUE, FALSE) \/ HandleReject(s, id, at, TRUE, FALSE)
  \/ ClockInClick(s, TRUE, FALSE)
  \/ \E id \in DOMAIN attendance : ClockOutClick(s, id, 0, TRUE, FALSE)
  \/ HandleDeleteConfirm(s, TRUE, FALSE)

\* An insert handler of session s runs and the table stays as it was.
InsertRefused(s) ==
  \/ leaves' = leaves /\ \E form \in LeaveForms : \E fails \in RequestFailures :
       HandleSubmitLeave(s, form, fails.write, fails.read)
  \/ attendance' = attendance /\ \E fails \in RequestFailures :
       ClockInClick(s, fails.write, fails.read)

\* C21: a step that changes a displayed list sets it to an answer of the
\* view's query over the tables as they are after the step, and a handler
\* whose write failed leaves the lists and the loading flags as they are.
C21_ReadAfterWrite ==
  [][\A s \in OneSession :
       /\ leavesList'[s] # leavesList[s]
            => leavesList'[s] = LeavesQuery(leaves', user[s], ~isAdmin(s))
       /\ attendanceRecords'[s] # attendanceRecords[s]
            => attendanceRecords'[s] \in AttendanceQuery(attendance', user[s], ~isAdmin(s))
       /\ (employees'[s] # employees[s] /\ employeesDeps'[s] # <<>>)
            => employees'[s] \in (EmployeesQuery(user[s], isAdmin(s), admin_data))'
       /\ \/ /\ leavesList'[s] = leavesList[s]
             /\ attendanceRecords'[s] = attendanceRecords[s]
             /\ employees'[s] = employees[s]
             /\ leavesLoading'[s] = leavesLoading[s]
             /\ attendanceLoading'[s] = attendanceLoading[s]
             /\ employeesLoading'[s] = employeesLoading[s]
          \/ ~(WriteLost(s) \/ InsertRefused(s))]_vars

\* The Leaves view, whose one effect run found the table empty, lists the
\* leave its user has submitted since.
C21_Witness ==
  \E s \in OneSession :
    /\ mounted[s] /\ loading[s]
    /\ leavesDeps[s] = <<user[s], FALSE>>
    /\ Len(leaves) = 1
    /\ leavesList[s] = LeavesQuery(leaves, user[s], TRUE)
    /\ Len(leavesList[s]) = 1
\* ------------------------------------------------------ deny by default
\* What only an admin view offers changes: the attendance table, a stored
\* leave, the Mark Attendance card, the delete dialog.
AdminAffordanceUsed(s) ==
  \/ attendance' # attendance
  \/ Len(leaves') = Len(leaves) /\ leaves' # leaves
  \/ markVars' # markVars
  \/ deleteDialogOpen'[s] /\ ~deleteDialogOpen[s]

\* C27: before and after every step, role is null while the resolver is
\* loading, and isAdmin is true exactly when role is "admin"; isAdmin becomes
\* true only by fetchRole resuming with an answer that carries "admin" and no
\* error; and a step that uses an admin affordance is taken by a view that
\* is admin.
C27_DenyByDefault ==
  [][\A s \in OneSession :
       /\ isAdmin(s)' <=> role'[s] = "admin"
       /\ (loading[s] => role[s] = Null) /\ (loading'[s] => role'[s] = Null)
       /\ (isAdmin(s)' /\ ~isAdmin(s))
            => \E i \in DOMAIN roleQ[s] :
                 /\ ResumedStep(s, i)
                 /\ ~roleQ[s][i].error /\ roleQ[s][i].data = "admin"
       /\ AdminAffordanceUsed(s) => isAdmin(s)]_vars

\* A view whose role query was answered with "admin" has marked attendance.
C27_Witness ==
  \E s \in OneSession :
    /\ isAdmin(s) /\ ~loading[s] /\ console[s] = ""
    /\ Len(attendance) = 1 /\ attendance[1].marked_by = user[s]
\* ------------------------------------------------------ termination
\* C28: a call of fetchRole without an identity and every resumption of
\* fetchRole leave loading false; loading of a page that stays mounted never
\* turns from false to true; and a mounted resolver that is loading gets to
\* loading false (unless the page unmounts first).
C28_LoadingEnds ==
  /\ [][\A s \in OneSession :
          /\ (SomeResumed(s) \/ (user'[s] = NoUser /\ FetchRoleCalled(s)))
               => ~loading'[s]
          /\ (mounted[s] /\ mounted'[s] /\ ~loading[s]) => ~loading'[s]]_vars
  /\ \A s \in OneSession :
       (mounted[s] /\ loading[s]) ~> (~loading[s] \/ ~mounted[s])

\* fetchRole has ended with loading false after an error and, called again
\* after the sign-out, without an identity.
C28_Witness ==
  \E s \in OneSession :
    /\ mounted[s] /\ ~loading[s] /\ roleQ[s] = <<>>
    /\ user[s] = NoUser /\ role[s] = Null
    /\ console[s] = "Error fetching role:"
\* ------------------------------------------------------ failed requests
\* The toast of session s tells of a failure.
FailureShown(s) == toast'[s].title \in {"Error", "error"}

\* C22 (as claimed): when fetchRole resumes with an error, or a fetch of the
\* Attendance or Employees view fails, the user is shown a failure
\* notification and the loading state is left.
C22_FailuresNotified ==
  [][\A s \in OneSession :
       /\ SomeResumed(s) =>
            \A i \in DOMAIN roleQ[s] :
              (ResumedStep(s, i) /\ roleQ[s][i].error)
                => (FailureShown(s) /\ ~loading'[s])
       /\ (~loading[s] /\ \E failE \in BOOLEAN : AttendanceEffect(s, TRUE, failE))
            => (FailureShown(s) /\ ~attendanceLoading'[s])
       /\ EmployeesEffect(s, TRUE)
            => (FailureShown(s) /\ ~employeesLoading'[s])]_vars
\* ------------------------------------------------------ provisioning
\* C23: a signup that is answered without error has created, for the new
\* identity, a profile, the one role row "user" and no other, and an
\* admin_data row exactly when the metadata held a position; it has given no
\* identity the role "admin"; and a signup answered with an error has left
\* the three tables as they were.
C23_SignupProvisions ==
  [][response'.table = "auth.users" /\ response' # response =>
       LET id == response'.caller
       IN IF response'.error
          THEN /\ profiles' = profiles
               /\ user_roles' = user_roles
               /\ admin_data' = admin_data
          ELSE /\ id \notin DOMAIN profiles /\ id \in DOMAIN profiles'
               /\ {row \in user_roles' : row.user_id = id}
                    = {[user_id |-> id, role |-> "user"]}
               /\ \A meta \in response'.rows :
                    /\ Cardinality({row \in admin_data' : row.user_id = id})
                         = IF meta.position # Null THEN 1 ELSE 0
                    /\ \A row \in admin_data' :
                         row.user_id = id => row.position = meta.position
               /\ \A row \in user_roles' \ user_roles : row.role # "admin"
               /\ \A j \in DOMAIN profiles : profiles'[j] = profiles[j]]_vars

\* Two identities have signed up, one with a position and one without: each
\* has its profile and the role "user", and the first alone a confidential
\* row.
C23_Witness ==
  /\ DOMAIN profiles = Users
  /\ user_roles = {[user_id |-> id, role |-> "user"] : id \in Users}
  /\ Cardinality(admin_data) = 1
  /\ ~response.error
====
